---- MODULE Spec2Model ----
(***************************************************************************)
(* IR-to-bytecode lowering of source/slang/bytecode.cpp.                   *)
(*                                                                         *)
(* The generator is a single-threaded batch program.  Its state is the    *)
(* shared generation context (the byte arena, the type table, the         *)
(* value->global map, the constant list), the outer generation context,   *)
(* and the records it has written into the arena.  The records are kept   *)
(* as records keyed by their arena offset; the arena itself is kept as    *)
(* its length (every allocation zero-fills, see allocateRaw).             *)
(***************************************************************************)
EXTENDS Integers, Sequences, FiniteSets, TLC

VARIABLES
    translationUnits,   \* compileReq->translationUnits: the input IR
    generatedBytecode,  \* compileReq->generatedBytecode: NullPtr (unset) or the arena length attached
    pc,                 \* position of the generator in generateBytecodeContainer
    tuIndex,            \* index of the translation unit being generated (1-based)
    symIndex,           \* index of the global instruction being generated (1-based)
    shared,             \* SharedBytecodeGenerationContext (+ the pending fatal error)
    context,            \* the outer BytecodeGenerationContext
    header,             \* the BCHeader record at offset 0
    bcModulesList,      \* generateBytecodeContainer's local list of module handles
    bcModuleRecs,       \* the BCModule records written so far, one per non-null handle
    bcFuncRecs,         \* the BCFunc / BCSymbol records written so far
    probe,              \* last direct call of a primitive (encodeUInt, emitBCType, ...)
    build               \* what the build makes of the code's undefined behaviour

vars == <<translationUnits, generatedBytecode, pc, tuIndex, symIndex, shared,
          context, header, bcModulesList, bcModuleRecs, bcFuncRecs, probe, build>>

(***************************************************************************)
(* Bounds of the model.                                                    *)
(***************************************************************************)
\* largest value of the dense range handed to encodeUInt / encodeSInt
MaxVarValue == 130

\* a direct encodeUInt / encodeSInt call is made while the buffer is shorter
MaxProbeBytes == 1

\* number of direct emitBCType / getTypeID calls in one run
MaxTypeCalls == 2

\* blocks per function and instructions per function (function-level runs)
MaxBlocks == 2

MaxFuncInsts == 3

\* global instructions per module (module-level runs)
MaxGlobals == 2

\* translation units per compile request and global instructions per
\* module (container-level runs)
MaxUnits == 2

MaxUnitGlobals == 1

\* direct allocateRaw calls in one run, and the largest size asked for
MaxArenaCalls == 3

MaxAllocSize == 2

(***************************************************************************)
(* Generic helpers.                                                        *)
(***************************************************************************)
EmptyMap == [x \in {} |-> 0]

MapAdd(m, k, v) == (k :> v) @@ m

RECURSIVE Reverse(_)
Reverse(s) == IF s = <<>> THEN <<>> ELSE Append(Reverse(Tail(s)), Head(s))

SeqsUpTo(S, n) == UNION {[1..k -> S] : k \in 0..n}

RECURSIVE SumSeq(_)
SumSeq(s) == IF s = <<>> THEN 0 ELSE Head(s) + SumSeq(Tail(s))

(***************************************************************************)
(* Variable-length integers (bytecode.cpp:185-238).                        *)
(***************************************************************************)
\* encodeUInt8: append one byte to the current byte buffer
encodeUInt8(currentBytecode, value) == Append(currentBytecode, value)

\* The scratch array bytes[] of encodeUInt, index 0 first: 7-bit groups of
\* value least-significant first; the continuation bit 0x80 is or-ed into
\* every group after which a non-zero rest remains, i.e. into every group
\* except the one stored last.
RECURSIVE scratchBytes(_)
scratchBytes(value) ==
    LET group == value % 128
        rest  == value \div 128
    IN  IF rest = 0 THEN <<group>> ELSE <<group + 128>> \o scratchBytes(rest)

\* encodeUInt: one byte below 128, else the scratch array in reverse.
encodeUInt(currentBytecode, value) ==
    IF value < 128
    THEN encodeUInt8(currentBytecode, value)
    ELSE currentBytecode \o Reverse(scratchBytes(value))

\* fault injection for zigZag: a negative value is negated, not complemented
zigZagNegated(value) == IF value < 0 THEN ((-value) * 2) + 1 ELSE value * 2

\* the zig-zag step of encodeSInt; ~UInt(value) of a negative value is -value-1
zigZag(value) == IF value < 0 THEN ((-value - 1) * 2) + 1 ELSE value * 2

\* encodeSInt
encodeSInt(currentBytecode, value) == encodeUInt(currentBytecode, zigZag(value))

(***************************************************************************)
(* IR types.  A type is [k, base, args]; "alias" stands for a named type   *)
(* (typedef) whose canonical type is that of its argument, "vector" for a  *)
(* type kind the generator does not support, "null" for the null Type*.    *)
(***************************************************************************)
NullType == [k |-> "null", base |-> "", args |-> <<>>]

BasicType(b) == [k |-> "basic", base |-> b, args |-> <<>>]

PtrType(t) == [k |-> "ptr", base |-> "", args |-> <<t>>]

FuncType(res, params) == [k |-> "func", base |-> "", args |-> <<res>> \o params]

AliasType(name, t) == [k |-> "alias", base |-> name, args |-> <<t>>]

VectorType(t) == [k |-> "vector", base |-> "", args |-> <<t>>]

RWStructuredBufferType(t) == [k |-> "rwStructuredBuffer", base |-> "", args |-> <<t>>]

StructuredBufferType(t) == [k |-> "structuredBuffer", base |-> "", args |-> <<t>>]

VoidT == BasicType("Void")

BoolT == BasicType("Bool")

IntT == BasicType("Int")

FloatT == BasicType("Float")

\* Type::GetCanonicalType of a non-null type: named types are replaced by
\* the type they name, at every depth.
RECURSIVE GetCanonicalType(_)
GetCanonicalType(type) ==
    IF type.k = "alias"
    THEN GetCanonicalType(type.args[1])
    ELSE [type EXCEPT !.args = [i \in 1..Len(type.args) |-> GetCanonicalType(type.args[i])]]

(***************************************************************************)
(* The byte arena (bytecode.cpp:145-182).                                  *)
(***************************************************************************)
\* layout of the records of bytecode.h
SizeofBCPtr == 8

SizeofBCType == 16

\* the null BytecodeGenerationPtr / a null BCPtr slot
NullPtr == -1

\* SharedBytecodeGenerationContext after construction; fail is the fatal
\* error in flight ("none" when there is none)
SharedInit ==
    [ bytecodeCount    |-> 0,
      mapValueToGlobal |-> EmptyMap,
      bcTypes          |-> <<>>,
      mapTypeToID      |-> EmptyMap,
      constants        |-> <<>>,
      fail             |-> "none" ]

\* SLANG_UNEXPECTED: a fatal error leaves the generate call
Unexpected(sh, what) == [sh EXCEPT !.fail = IF sh.fail = "none" THEN what ELSE sh.fail]

\* fault injection for allocateRaw: the end of the allocation is counted
\* from the current length, not from the aligned offset
allocateRawFromLength(sh, size, alignment) ==
    LET currentOffset == sh.bytecodeCount
        beginOffset   == ((currentOffset + (alignment - 1)) \div alignment) * alignment
        endOffset     == currentOffset + size
    IN  [ sh     |-> [sh EXCEPT !.bytecodeCount =
                         IF endOffset > currentOffset THEN endOffset ELSE currentOffset],
          offset |-> beginOffset ]

\* allocateRaw: round the length up to alignment, extend by size zero bytes
allocateRaw(sh, size, alignment) ==
    LET currentOffset == sh.bytecodeCount
        beginOffset   == ((currentOffset + (alignment - 1)) \div alignment) * alignment
        endOffset     == beginOffset + size
    IN  [ sh     |-> [sh EXCEPT !.bytecodeCount =
                         IF endOffset > currentOffset THEN endOffset ELSE currentOffset],
          offset |-> beginOffset ]

(***************************************************************************)
(* The type interner (bytecode.cpp:466-619).  An operator that needs the   *)
(* result of a call more than once takes it as a parameter.                *)
(***************************************************************************)
\* the BCType record a handle refers to
BCTypeAt(sh, offset) == CHOOSE r \in {sh.bcTypes[i] : i \in 1..Len(sh.bcTypes)} : r.offset = offset

\* fault injection for fillBCType: the record is appended but the type is
\* not registered in the type -> id map
fillBCTypeUnregistered(a, type, op, args) ==
    [ sh  |-> [a.sh EXCEPT !.bcTypes = Append(@, [offset |-> a.offset, op |-> op,
                                                  argCount |-> Len(args), args |-> args,
                                                  id |-> Len(a.sh.bcTypes)])],
      ptr |-> a.offset ]

\* emitBCType(context, type, op, args, argCount) after its allocation a:
\* fill the record, register type -> id, append the handle to bcTypes
fillBCType(a, type, op, args) ==
    [ sh  |-> [a.sh EXCEPT !.mapTypeToID = MapAdd(@, type, Len(a.sh.bcTypes)),
                           !.bcTypes = Append(@, [offset |-> a.offset, op |-> op,
                                                  argCount |-> Len(args), args |-> args,
                                                  id |-> Len(a.sh.bcTypes)])],
      ptr |-> a.offset ]

\* emitBCType(context, type, op, args, argCount): one BCType record of
\* sizeof(BCType) + argCount * sizeof(BCPtr<void>) bytes
emitBCTypeRecord(sh, type, op, args) ==
    fillBCType(allocateRaw(sh, SizeofBCType + (Len(args) * SizeofBCPtr), SizeofBCPtr),
               type, op, args)

\* emitBCVarArgType: the record of a type with arguments, once they are interned
emitBCVarArgType(operands, type, op) ==
    IF operands.sh.fail # "none"
    THEN [sh |-> operands.sh, ptr |-> 0]
    ELSE emitBCTypeRecord(operands.sh, type, op, operands.args)

BasicTypeOp(base) ==
    CASE base = "Void"   -> "VoidType"
      [] base = "Bool"   -> "BoolType"
      [] base = "Int"    -> "Int32Type"
      [] base = "UInt"   -> "UInt32Type"
      [] base = "UInt64" -> "UInt64Type"
      [] base = "Half"   -> "Float16Type"
      [] base = "Float"  -> "Float32Type"
      [] base = "Double" -> "Float64Type"
      [] OTHER           -> "unimplemented"

ArgTypeOp(k) ==
    CASE k = "func" -> "FuncType"
      [] k = "ptr" -> "PtrType"
      [] k = "rwStructuredBuffer" -> "readWriteStructuredBufferType"
      [] OTHER -> "structuredBufferType"

RECURSIVE emitBCType(_, _)
RECURSIVE emitBCTypeImpl(_, _)
RECURSIVE emitBCTypeArgs(_, _, _)
RECURSIVE emitBCTypeArgsNext(_, _, _)

\* the operand lists of emitBCTypeImpl: intern each argument type in order
emitBCTypeArgs(sh, types, acc) ==
    IF types = <<>> \/ sh.fail # "none"
    THEN [sh |-> sh, args |-> acc]
    ELSE emitBCTypeArgsNext(emitBCType(sh, Head(types)), Tail(types), acc)

emitBCTypeArgsNext(e, types, acc) == emitBCTypeArgs(e.sh, types, Append(acc, e.ptr))

\* emitBCTypeImpl: one record for a type that is not in the table yet
emitBCTypeImpl(sh, type) ==
    IF type.k = "null" \/ (type.k = "basic" /\ BasicTypeOp(type.base) # "unimplemented")
    THEN emitBCTypeRecord(sh, type,
                          IF type.k = "null" THEN "VoidType" ELSE BasicTypeOp(type.base), <<>>)
    ELSE IF type.k \in {"func", "ptr", "rwStructuredBuffer", "structuredBuffer"}
    THEN emitBCVarArgType(emitBCTypeArgs(sh, type.args, <<>>), type, ArgTypeOp(type.k))
    ELSE [sh |-> Unexpected(sh, "unimplemented"), ptr |-> 0]

\* the canonical type emitBCType looks up; a null type stays null
canonicalOf(type) == IF type.k = "null" THEN type ELSE GetCanonicalType(type)

\* emitBCType(context, type): look the canonical type up, emit it when it
\* is missing.  type->GetCanonicalType() on a null type is a member call
\* through a null pointer: the build either faults there or hands null on.
emitBCType(sh, type) ==
    IF sh.fail # "none" THEN [sh |-> sh, ptr |-> 0]
    ELSE IF type.k = "null" /\ build.nullThis = "fault"
    THEN [sh |-> Unexpected(sh, "null dereference"), ptr |-> 0]
    ELSE IF canonicalOf(type) \in DOMAIN sh.mapTypeToID
    THEN [sh |-> sh, ptr |-> sh.bcTypes[sh.mapTypeToID[canonicalOf(type)] + 1].offset]
    ELSE emitBCTypeImpl(sh, canonicalOf(type))

\* the id field behind the handle emitBCType returned
typeIDOf(e) == [sh |-> e.sh, id |-> IF e.sh.fail # "none" THEN 0 ELSE BCTypeAt(e.sh, e.ptr).id]

\* getTypeID: the id field of the interned record
getTypeID(sh, type) == typeIDOf(emitBCType(sh, type))

\* getTypeIDForGlobalSymbol: 0 for an instruction without a data type
getTypeIDForGlobalSymbol(sh, inst) ==
    IF inst.type.k = "null" THEN [sh |-> sh, id |-> 0] ELSE getTypeID(sh, inst.type)

\* the interning call t grew the arena that held before
staleDestination(before, t) ==
    t.sh.fail = "none" /\ t.sh.bytecodeCount > before.bytecodeCount

\* `x->typeID = f(...)`: x is a BytecodeGenerationPtr, whose operator-> and
\* operator[] turn the offset into an address of the storage as it is when
\* they run, and the two sides of the assignment are not sequenced.  When f
\* grew the arena, the store goes through the address the build took: of the
\* storage after the call, or of storage that did not move (the field is t.id),
\* or of storage the growth released (the record in the arena keeps the zero
\* allocateRaw wrote, or the store faults)
typeIDStore(before, t) ==
    [ sh   |-> IF staleDestination(before, t) /\ build.staleStore = "fault"
               THEN Unexpected(t.sh, "stale store") ELSE t.sh,
      id   |-> IF staleDestination(before, t) /\ build.staleStore # "lands" THEN 0 ELSE t.id,
      grew |-> staleDestination(before, t) ]


(***************************************************************************)
(* The IR handed to the generator.                                         *)
(*                                                                         *)
(* An instruction is [op, type, operands, intVal, floatVal].  An operand   *)
(* is a reference [k, a, b] to an IR value: instruction b of block a of    *)
(* the function at hand ("inst"), block a of it ("block"), the a-th        *)
(* global instruction of the module at hand ("global"), the integer        *)
(* literal number a kept outside the blocks ("lit"), or a floating-point   *)
(* literal kept outside the blocks ("floatlit").  References are the IR    *)
(* pointers the generator's maps are keyed by.                             *)
(***************************************************************************)
Ref(k, a, b) == [k |-> k, a |-> a, b |-> b]

InstRef(b, i) == Ref("inst", b, i)

BlockRef(b) == Ref("block", b, 0)

GlobalRef(g) == Ref("global", g, 0)

LitRef(n) == Ref("lit", n, 0)

FloatLitRef == Ref("floatlit", 0, 0)

Inst(op, type, operands, intVal) ==
    [op |-> op, type |-> type, operands |-> operands, intVal |-> intVal, floatVal |-> <<>>]

\* the integer literal number n kept outside the blocks: value n + 4, type int
LitInst(n) == Inst("IntLit", IntT, <<>>, n + 4)

\* the function, module and position the sub-context works on
Env(m, g, irFunc, globalInsts) == [m |-> m, g |-> g, blocks |-> irFunc.blocks, globalInsts |-> globalInsts]

\* the IR value a reference points to
ValueOf(env, ref) ==
    CASE ref.k = "inst" -> env.blocks[ref.a][ref.b]
      [] ref.k = "global" -> env.globalInsts[ref.a]
      [] ref.k = "lit" -> LitInst(ref.a)
      [] ref.k = "floatlit" -> [Inst("FloatLit", FloatT, <<>>, 0) EXCEPT !.floatVal = <<0, 0, 0, 0, 0, 0, 240, 63>>]
      [] OTHER -> Inst("Block", NullType, <<>>, 0)

\* opcode numbers of ir-inst-defs.h as far as the format examples fix them
OpCode(op) ==
    CASE op = "ReturnVoid" -> 3
      [] op = "IntLit" -> 7
      [] op = "Add" -> 12
      [] op = "FloatLit" -> 8
      [] op = "boolConst" -> 9
      [] op = "Var" -> 20
      [] op = "Store" -> 21
      [] op = "Load" -> 22
      [] op = "Call" -> 23
      [] op = "unconditionalBranch" -> 24
      [] op = "Param" -> 25
      [] OTHER -> 30

\* opHasResult: a data type is present and is not the basic type Void
opHasResult(inst) ==
    IF inst.type.k = "null" THEN FALSE
    ELSE IF inst.type.k = "basic" /\ inst.type.base = "Void" THEN FALSE
    ELSE TRUE

(***************************************************************************)
(* Operand resolution (bytecode.cpp:240-318).  cx is the sub-context of    *)
(* the function being encoded together with the shared context:           *)
(* [sh, currentBytecode, remappedGlobalSymbols, mapInstToLocalID].         *)
(***************************************************************************)
BCConst(flavor, id) == [flavor |-> flavor, id |-> id]

\* fault injection for getGlobalValue: a pooled literal is not bound in
\* the value -> global map
getGlobalValueUnbound(cx, env, ref) ==
    IF <<env.m, ref>> \in DOMAIN cx.sh.mapValueToGlobal
    THEN [cx |-> cx, bcConst |-> cx.sh.mapValueToGlobal[<<env.m, ref>>]]
    ELSE IF ValueOf(env, ref).op = "IntLit"
    THEN [ cx |-> [cx EXCEPT !.sh.constants =
                                 Append(@, [value |-> <<env.m, ref>>, inst |-> ValueOf(env, ref)])],
           bcConst |-> BCConst("Constant", Len(cx.sh.constants)) ]
    ELSE [ cx |-> [cx EXCEPT !.sh = Unexpected(@, "no ID for inst")],
           bcConst |-> BCConst("none", 0) ]

\* fault injection for getGlobalValue: the fatal error is not raised and
\* the placeholder constant after it is returned
getGlobalValueNoError(cx, env, ref) ==
    IF <<env.m, ref>> \in DOMAIN cx.sh.mapValueToGlobal
    THEN [cx |-> cx, bcConst |-> cx.sh.mapValueToGlobal[<<env.m, ref>>]]
    ELSE IF ValueOf(env, ref).op = "IntLit"
    THEN [ cx |-> [cx EXCEPT !.sh.constants =
                                 Append(@, [value |-> <<env.m, ref>>, inst |-> ValueOf(env, ref)]),
                             !.sh.mapValueToGlobal =
                                 MapAdd(@, <<env.m, ref>>,
                                        BCConst("Constant", Len(cx.sh.constants)))],
           bcConst |-> BCConst("Constant", Len(cx.sh.constants)) ]
    ELSE [cx |-> cx, bcConst |-> BCConst("none", -9999)]

\* getGlobalValue: the value->global map, else a fresh constant-pool entry
\* for an IntLit, else the fatal "no ID for inst"
getGlobalValue(cx, env, ref) ==
    IF <<env.m, ref>> \in DOMAIN cx.sh.mapValueToGlobal
    THEN [cx |-> cx, bcConst |-> cx.sh.mapValueToGlobal[<<env.m, ref>>]]
    ELSE IF ValueOf(env, ref).op = "IntLit"
    THEN [ cx |-> [cx EXCEPT !.sh.constants =
                                 Append(@, [value |-> <<env.m, ref>>, inst |-> ValueOf(env, ref)]),
                             !.sh.mapValueToGlobal =
                                 MapAdd(@, <<env.m, ref>>,
                                        BCConst("Constant", Len(cx.sh.constants)))],
           bcConst |-> BCConst("Constant", Len(cx.sh.constants)) ]
    ELSE [ cx |-> [cx EXCEPT !.sh = Unexpected(@, "no ID for inst")],
           bcConst |-> BCConst("none", 0) ]

\* fault injection for remapGlobal: the new local id is not kept in the
\* local-id map
remapGlobalUncached(gv, ref) ==
    IF gv.cx.sh.fail # "none"
    THEN [cx |-> gv.cx, localID |-> 0]
    ELSE [ cx |-> [gv.cx EXCEPT !.remappedGlobalSymbols = Append(@, gv.bcConst)],
           localID |-> -Len(gv.cx.remappedGlobalSymbols) - 1 ]

\* getLocalID after getGlobalValue returned gv: a new entry k of
\* remappedGlobalSymbols, and ~k as the local id
remapGlobal(gv, ref) ==
    IF gv.cx.sh.fail # "none"
    THEN [cx |-> gv.cx, localID |-> 0]
    ELSE [ cx |-> [gv.cx EXCEPT !.remappedGlobalSymbols = Append(@, gv.bcConst),
                                !.mapInstToLocalID =
                                    MapAdd(@, ref, -Len(gv.cx.remappedGlobalSymbols) - 1)],
           localID |-> -Len(gv.cx.remappedGlobalSymbols) - 1 ]

\* getLocalID: the local id, else ~k for a new entry k of remappedGlobalSymbols
getLocalID(cx, env, ref) ==
    IF ref \in DOMAIN cx.mapInstToLocalID
    THEN [cx |-> cx, localID |-> cx.mapInstToLocalID[ref]]
    ELSE remapGlobal(getGlobalValue(cx, env, ref), ref)

\* encodeOperand(context, IRInst*) after getLocalID returned l
encodeLocalID(l) ==
    IF l.cx.sh.fail # "none" THEN l.cx
    ELSE [l.cx EXCEPT !.currentBytecode = encodeSInt(@, l.localID)]

\* encodeOperand(context, IRInst*)
encodeOperand(cx, env, ref) ==
    IF cx.sh.fail # "none" THEN cx ELSE encodeLocalID(getLocalID(cx, env, ref))

\* encodeOperand(context, IRType*) after getTypeID returned t
encodeTypeID(cx, t) ==
    IF t.sh.fail # "none" THEN [cx EXCEPT !.sh = t.sh]
    ELSE [cx EXCEPT !.sh = t.sh, !.currentBytecode = encodeUInt(@, t.id)]

\* encodeOperand(context, IRType*)
encodeTypeOperand(cx, type) ==
    IF cx.sh.fail # "none" THEN cx ELSE encodeTypeID(cx, getTypeID(cx.sh, type))

\* encodeUInt on the sub-context
encodeUIntCx(cx, value) ==
    IF cx.sh.fail # "none" THEN cx ELSE [cx EXCEPT !.currentBytecode = encodeUInt(@, value)]

RECURSIVE encodeOperands(_, _, _)
encodeOperands(cx, env, refs) ==
    IF refs = <<>> THEN cx ELSE encodeOperands(encodeOperand(cx, env, Head(refs)), env, Tail(refs))

RECURSIVE encodeRawBytes(_, _)
encodeRawBytes(cx, bytes) ==
    IF bytes = <<>> \/ cx.sh.fail # "none" THEN cx
    ELSE encodeRawBytes([cx EXCEPT !.currentBytecode = encodeUInt8(@, Head(bytes))], Tail(bytes))

(***************************************************************************)
(* generateBytecodeForInst (bytecode.cpp:338-464): self is the reference   *)
(* to inst itself, its destination operand.                                *)
(***************************************************************************)
\* the head of most encodings: the opcode, then the type operand
encodeOpAndType(cx, inst, type) == encodeTypeOperand(encodeUIntCx(cx, OpCode(inst.op)), type)

\* the destination of the default encoding: only for an op with a result
encodeDestination(cx, env, inst, self) ==
    IF opHasResult(inst) THEN encodeOperand(cx, env, self) ELSE cx

\* fault injection for generateBytecodeForInst: an integer literal is
\* encoded without its destination operand
generateBytecodeForInstNoDestination(cx, env, inst, self) ==
    CASE inst.op = "ReturnVoid" ->
            encodeUIntCx(cx, OpCode(inst.op))
      [] inst.op = "IntLit" ->
            encodeUIntCx(encodeOpAndType(cx, inst, inst.type), inst.intVal)
      [] inst.op = "FloatLit" ->
            encodeOperand(encodeRawBytes(encodeOpAndType(cx, inst, inst.type), inst.floatVal),
                          env, self)
      [] inst.op = "boolConst" ->
            encodeOperand(
                encodeUIntCx(encodeUIntCx(cx, OpCode(inst.op)), IF inst.intVal # 0 THEN 1 ELSE 0),
                env, self)
      [] inst.op = "Store" ->
            encodeOperand(
                encodeOperand(
                    encodeOpAndType(cx, inst, ValueOf(env, inst.operands[2]).type),
                    env, inst.operands[1]),
                env, inst.operands[2])
      [] inst.op = "Load" ->
            encodeOperand(
                encodeOperand(encodeOpAndType(cx, inst, inst.type), env, inst.operands[1]),
                env, self)
      [] OTHER ->
            encodeDestination(
                encodeOperands(
                    encodeUIntCx(encodeOpAndType(cx, inst, inst.type), Len(inst.operands)),
                    env, inst.operands),
                env, inst, self)

\* generateBytecodeForInst: the encoding of one instruction of a block
generateBytecodeForInst(cx, env, inst, self) ==
    CASE inst.op = "ReturnVoid" ->
            encodeUIntCx(cx, OpCode(inst.op))
      [] inst.op = "IntLit" ->
            encodeOperand(encodeUIntCx(encodeOpAndType(cx, inst, inst.type), inst.intVal),
                          env, self)
      [] inst.op = "FloatLit" ->
            encodeOperand(encodeRawBytes(encodeOpAndType(cx, inst, inst.type), inst.floatVal),
                          env, self)
      [] inst.op = "boolConst" ->
            encodeOperand(
                encodeUIntCx(encodeUIntCx(cx, OpCode(inst.op)), IF inst.intVal # 0 THEN 1 ELSE 0),
                env, self)
      [] inst.op = "Store" ->
            encodeOperand(
                encodeOperand(
                    encodeOpAndType(cx, inst, ValueOf(env, inst.operands[2]).type),
                    env, inst.operands[1]),
                env, inst.operands[2])
      [] inst.op = "Load" ->
            encodeOperand(
                encodeOperand(encodeOpAndType(cx, inst, inst.type), env, inst.operands[1]),
                env, self)
      [] OTHER ->
            encodeDestination(
                encodeOperands(
                    encodeUIntCx(encodeOpAndType(cx, inst, inst.type), Len(inst.operands)),
                    env, inst.operands),
                env, inst, self)

(***************************************************************************)
(* generateBytecodeSymbolForInst (bytecode.cpp:670-923).  The function     *)
(* case runs in stages; a stage takes [sh, rec], the shared context and    *)
(* the BCFunc record so far, and is skipped once a fatal error is in       *)
(* flight.                                                                 *)
(***************************************************************************)
\* layout of the records of bytecode.h
SizeofBCSymbol == 16

SizeofBCFunc == 64

SizeofBCBlock == 24

SizeofBCReg == 12

AlignofBCReg == 4

SizeofBCConst == 8

AlignofBCConst == 4

\* a zero-filled BCReg
ZeroReg == [op |-> "zero", previousVarIndexPlusOne |-> 0, typeID |-> 0, grew |-> FALSE]

\* the block enumeration: block b (1-based, in IR order) gets local id b - 1
enumerateBlocks(blocks) == [ref \in {BlockRef(b) : b \in 1..Len(blocks)} |-> ref.a - 1]

\* the counting pass: registers one instruction asks for
countedRegs(inst) ==
    CASE inst.op = "Param" -> 1
      [] inst.op = "Var" -> 2
      [] OTHER -> IF opHasResult(inst) THEN 1 ELSE 0

\* the counting pass over one block
countBlockRegs(block) == SumSeq([i \in 1..Len(block) |-> countedRegs(block[i])])

\* paramCount of one block
countBlockParams(block) == Cardinality({i \in 1..Len(block) : block[i].op = "Param"})

\* the counting pass over the function
countRegs(blocks) == SumSeq([b \in 1..Len(blocks) |-> countBlockRegs(blocks[b])])

\* a store into bcRegs[localID]
setReg(regs, localID, reg) ==
    IF localID + 1 \in DOMAIN regs THEN [regs EXCEPT ![localID + 1] = reg] ELSE regs

\* fault injection for populateReg: the register counter is not advanced
populateRegSameSlot(st, inst, self, t) ==
    [ sh         |-> t.sh,
      regCounter |-> st.regCounter,
      map        |-> MapAdd(st.map, self, st.regCounter),
      regs       |-> setReg(st.regs, st.regCounter,
                            [op |-> inst.op, previousVarIndexPlusOne |-> st.regCounter,
                             typeID |-> t.id,
                             grew |-> t.grew]) ]

\* the population pass binds inst to the next register and fills it; t is
\* what the type id call returned; st is [sh, regCounter, map, regs]
populateReg(st, inst, self, t) ==
    [ sh         |-> t.sh,
      regCounter |-> st.regCounter + 1,
      map        |-> MapAdd(st.map, self, st.regCounter),
      regs       |-> setReg(st.regs, st.regCounter,
                            [op |-> inst.op, previousVarIndexPlusOne |-> st.regCounter,
                             typeID |-> t.id,
                             grew |-> t.grew]) ]

\* the second register of a var: the storage, typed by the pointee
populateStorage(st, inst, t) ==
    [ sh         |-> t.sh,
      regCounter |-> st.regCounter + 1,
      map        |-> st.map,
      regs       |-> setReg(st.regs, st.regCounter,
                            [op |-> inst.op, previousVarIndexPlusOne |-> st.regCounter,
                             typeID |-> t.id,
                             grew |-> t.grew]) ]

\* getTypeID of (ii->getDataType()->As<PtrType>())->getValueType()
\* of a var; As<PtrType>() of a type that is no pointer is null, and
\* getValueType() through it faults or hands null on, as the build has it
valueTypeID(sh, inst) ==
    IF sh.fail # "none" THEN [sh |-> sh, id |-> 0]
    ELSE IF canonicalOf(inst.type).k = "ptr"
    THEN getTypeID(sh, canonicalOf(inst.type).args[1])
    ELSE IF build.nullThis = "fault"
    THEN [sh |-> Unexpected(sh, "null dereference"), id |-> 0]
    ELSE getTypeID(sh, NullType)

populateVar(st, inst) == populateStorage(st, inst, typeIDStore(st.sh, valueTypeID(st.sh, inst)))

\* the population pass for one instruction: a var takes two registers, any
\* other instruction (a Param too) one when opHasResult
populateInst(st, inst, self) ==
    IF st.sh.fail # "none" THEN st
    ELSE IF inst.op = "Var"
    THEN populateVar(populateReg(st, inst, self,
                                 typeIDStore(st.sh, getTypeIDForGlobalSymbol(st.sh, inst))), inst)
    ELSE IF opHasResult(inst)
    THEN populateReg(st, inst, self, typeIDStore(st.sh, getTypeIDForGlobalSymbol(st.sh, inst)))
    ELSE st

RECURSIVE populateInsts(_, _, _, _)
populateInsts(st, block, b, i) ==
    IF i > Len(block) THEN st
    ELSE populateInsts(populateInst(st, block[i], InstRef(b, i)), block, b, i + 1)

\* the population pass over the blocks; params collects bcBlocks[b].params
RECURSIVE populateBlocks(_, _, _, _)
populateBlocks(st, blocks, b, params) ==
    IF b > Len(blocks) \/ st.sh.fail # "none"
    THEN [st |-> st, params |-> params]
    ELSE populateBlocks(populateInsts(st, blocks[b], b, 1), blocks, b + 1,
                        Append(params, st.regCounter))

\* code emission for one instruction: Param emits nothing
emitInst(cx, env, inst, self) ==
    IF inst.op = "Param" THEN cx ELSE generateBytecodeForInst(cx, env, inst, self)

RECURSIVE emitInsts(_, _, _, _)
emitInsts(cx, env, b, i) ==
    IF i > Len(env.blocks[b]) THEN cx
    ELSE emitInsts(emitInst(cx, env, env.blocks[b][i], InstRef(b, i)), env, b, i + 1)

\* code emission over the blocks; blockOffsets collects each block's start
RECURSIVE emitBlocks(_, _, _, _)
emitBlocks(cx, env, b, blockOffsets) ==
    IF b > Len(env.blocks) \/ cx.sh.fail # "none"
    THEN [cx |-> cx, blockOffsets |-> blockOffsets]
    ELSE emitBlocks(emitInsts(cx, env, b, 1), env, b + 1,
                    Append(blockOffsets, Len(cx.currentBytecode)))

\* the BCFunc record before anything is stored into it
FuncRecInit(env, irFunc) ==
    [ kind |-> "func", m |-> env.m, g |-> env.g, offset |-> NullPtr, op |-> irFunc.op,
      typeID |-> 0, typeIDGrew |-> FALSE,
      blockCount |-> 0, blocksOffset |-> NullPtr, paramCounts |-> <<>>,
      regCount |-> 0, regsOffset |-> NullPtr, regs |-> <<>>, blockParams |-> <<>>,
      regCounter |-> 0, populated |-> FALSE,
      mapInstToLocalID |-> EmptyMap, currentBytecode |-> <<>>, blockOffsets |-> <<>>,
      remappedGlobalSymbols |-> <<>>, emitted |-> FALSE,
      byteCount |-> 0, bytes |-> NullPtr, blockCode |-> <<>>,
      constCount |-> 0, constsOffset |-> NullPtr, consts |-> <<>>, name |-> NullPtr ]

\* allocate<BCFunc>, bcFunc->op
funcAllocated(a, env, irFunc) ==
    [sh |-> a.sh, rec |-> [FuncRecInit(env, irFunc) EXCEPT !.offset = a.offset]]

\* bcFunc->typeID = getTypeIDForGlobalSymbol(context, inst)
funcTyped(f, t) ==
    [ sh  |-> t.sh,
      rec |-> [f.rec EXCEPT !.typeID = t.id,
                            !.typeIDGrew = t.grew] ]

funcType(f, irFunc) == funcTyped(f, typeIDStore(f.sh, getTypeIDForGlobalSymbol(f.sh, irFunc)))

\* the block enumeration, the BCBlock array, and the paramCount of each
\* block the counting pass stores
funcBlocksAllocated(f, a, blocks) ==
    [ sh  |-> a.sh,
      rec |-> [f.rec EXCEPT !.mapInstToLocalID = enumerateBlocks(blocks),
                            !.blockCount = Len(blocks),
                            !.blocksOffset = a.offset,
                            !.paramCounts = [b \in 1..Len(blocks) |-> countBlockParams(blocks[b])]] ]

funcBlocks(f, blocks) ==
    IF f.sh.fail # "none" THEN f
    ELSE funcBlocksAllocated(f, allocateRaw(f.sh, Len(blocks) * SizeofBCBlock, SizeofBCPtr), blocks)

\* regCount of the counting pass and the BCReg array
funcRegsAllocated(f, a, regCount) ==
    [ sh  |-> a.sh,
      rec |-> [f.rec EXCEPT !.regCount = regCount,
                            !.regsOffset = a.offset,
                            !.regs = [i \in 1..regCount |-> ZeroReg]] ]

funcRegsCounted(f, regCount) ==
    funcRegsAllocated(f, allocateRaw(f.sh, regCount * SizeofBCReg, AlignofBCReg), regCount)

funcRegs(f, blocks) == IF f.sh.fail # "none" THEN f ELSE funcRegsCounted(f, countRegs(blocks))

\* the population pass and the assertion regCounter == regCount after it,
\* which a build with NDEBUG does not evaluate
funcPopulated(f, pop) ==
    [ sh  |-> IF pop.st.sh.fail = "none" /\ pop.st.regCounter # f.rec.regCount /\ ~build.ndebug
              THEN Unexpected(pop.st.sh, "assert") ELSE pop.st.sh,
      rec |-> [f.rec EXCEPT !.regs = pop.st.regs,
                            !.blockParams = pop.params,
                            !.regCounter = pop.st.regCounter,
                            !.populated = pop.st.sh.fail = "none",
                            !.mapInstToLocalID = pop.st.map] ]

funcPopulate(f, blocks) ==
    IF f.sh.fail # "none" THEN f
    ELSE funcPopulated(f, populateBlocks(
                              [sh |-> f.sh, regCounter |-> 0,
                               map |-> f.rec.mapInstToLocalID, regs |-> f.rec.regs],
                              blocks, 1, <<>>))

\* code emission into the sub-context
funcEmitted(f, emit) ==
    [ sh  |-> emit.cx.sh,
      rec |-> [f.rec EXCEPT !.mapInstToLocalID = emit.cx.mapInstToLocalID,
                            !.currentBytecode = emit.cx.currentBytecode,
                            !.remappedGlobalSymbols = emit.cx.remappedGlobalSymbols,
                            !.blockOffsets = emit.blockOffsets,
                            !.emitted = emit.cx.sh.fail = "none"] ]

funcEmit(f, env) ==
    IF f.sh.fail # "none" THEN f
    ELSE funcEmitted(f, emitBlocks(
                            [sh |-> f.sh, currentBytecode |-> <<>>,
                             remappedGlobalSymbols |-> <<>>,
                             mapInstToLocalID |-> f.rec.mapInstToLocalID],
                            env, 1, <<>>))

\* fault injection for funcBytesAllocated: the code handle of a block is
\* its offset in the function's code, without the base of the code array
funcBytesRelative(f, bytes) ==
    [ sh  |-> bytes.sh,
      rec |-> [f.rec EXCEPT !.byteCount = Len(f.rec.currentBytecode),
                            !.bytes = bytes.offset,
                            !.blockCode = [b \in 1..f.rec.blockCount |-> f.rec.blockOffsets[b]]] ]

\* the code array in the arena and the code handle of each block
funcBytesAllocated(f, bytes) ==
    [ sh  |-> bytes.sh,
      rec |-> [f.rec EXCEPT !.byteCount = Len(f.rec.currentBytecode),
                            !.bytes = bytes.offset,
                            !.blockCode = [b \in 1..f.rec.blockCount |->
                                              bytes.offset + f.rec.blockOffsets[b]]] ]

funcBytes(f) ==
    IF f.sh.fail # "none" THEN f
    ELSE funcBytesAllocated(f, allocateRaw(f.sh, Len(f.rec.currentBytecode), 1))

\* the imported-constants table
funcConstsAllocated(f, bcConsts) ==
    [ sh  |-> bcConsts.sh,
      rec |-> [f.rec EXCEPT !.constCount = Len(f.rec.remappedGlobalSymbols),
                            !.constsOffset = bcConsts.offset,
                            !.consts = f.rec.remappedGlobalSymbols] ]

funcConsts(f) ==
    IF f.sh.fail # "none" THEN f
    ELSE funcConstsAllocated(f, allocateRaw(f.sh, Len(f.rec.remappedGlobalSymbols) * SizeofBCConst,
                                            AlignofBCConst))

\* kIROp_Func: the BCFunc record of one IR function
generateBCFunc(sh, env, irFunc) ==
    funcConsts(funcBytes(funcEmit(funcPopulate(funcRegs(funcBlocks(
        funcType(funcAllocated(allocateRaw(sh, SizeofBCFunc, SizeofBCPtr), env, irFunc), irFunc),
        irFunc.blocks), irFunc.blocks), irFunc.blocks), env)))

\* allocate<BCSymbol> of a global variable or constant, then its type id
symbolTyped(bcVar, t, env, inst) ==
    [ sh  |-> t.sh,
      rec |-> [ kind |-> "symbol", m |-> env.m, g |-> env.g, offset |-> bcVar.offset,
                op |-> inst.op, typeID |-> t.id,
                typeIDGrew |-> t.grew,
                name |-> NullPtr ] ]

symbolAllocated(bcVar, env, inst) ==
    symbolTyped(bcVar, typeIDStore(bcVar.sh, getTypeID(bcVar.sh, inst.type)), env, inst)

\* as<IRGlobalValue>: the global instructions that are global values
IsGlobalValue(inst) == inst.op \in {"Func", "global_var", "global_constant", "witness_table"}

\* generateBytecodeSymbolForInst: a BCFunc for a function, a bare BCSymbol
\* for a global variable or constant, the null handle for anything else
generateBytecodeSymbolForInst(sh, env, inst) ==
    CASE inst.op = "Func" -> generateBCFunc(sh, env, inst)
      [] inst.op \in {"global_var", "global_constant"} ->
            symbolAllocated(allocateRaw(sh, SizeofBCSymbol, SizeofBCPtr), env, inst)
      [] OTHER ->
            [ sh  |-> sh,
              rec |-> [ kind |-> "null", m |-> env.m, g |-> env.g, offset |-> NullPtr,
                        op |-> inst.op, typeID |-> 0, typeIDGrew |-> FALSE,
                        name |-> NullPtr ] ]

\* allocateString: size + 1 bytes; tryGenerateNameForSymbol: a name when the
\* global carries one (nameLen >= 0), else the null handle
tryGenerateNameForSymbol(sh, inst) ==
    IF inst.nameLen < 0 THEN [sh |-> sh, offset |-> NullPtr]
    ELSE allocateRaw(sh, inst.nameLen + 1, 1)

(***************************************************************************)
(* generateBytecodeForModule (bytecode.cpp:925-1037).                      *)
(***************************************************************************)
SizeofBCModule == 48

SizeofBCConstant == 16

SizeofIRIntegerValue == 8

\* fault injection for assignGlobalID: the id goes to the local-id map
\* only, not to the shared value -> global map
assignGlobalIDLocalOnly(st, key) ==
    [ sh |-> st.sh,
      map |-> MapAdd(st.map, key, st.symbolCount),
      symbolCount |-> st.symbolCount + 1 ]

\* one turn of the pre-pass: the global value gets the next global id, in
\* the shared map as a GlobalSymbol constant and in the local-id map
assignGlobalID(st, key) ==
    [ sh |-> [st.sh EXCEPT !.mapValueToGlobal =
                 MapAdd(@, key, BCConst("GlobalSymbol", st.symbolCount))],
      map |-> MapAdd(st.map, key, st.symbolCount),
      symbolCount |-> st.symbolCount + 1 ]

\* the pre-pass over the global instructions: global values are numbered
\* 0, 1, ... in list order; st is [sh, map, symbolCount]
RECURSIVE assignGlobalIDs(_, _, _, _)
assignGlobalIDs(st, m, globalInsts, g) ==
    IF g > Len(globalInsts) THEN st
    ELSE IF ~IsGlobalValue(globalInsts[g]) THEN assignGlobalIDs(st, m, globalInsts, g + 1)
    ELSE assignGlobalIDs(assignGlobalID(st, <<m, GlobalRef(g)>>), m, globalInsts, g + 1)

\* bcConstants[cc] once its type id and its payload are known
emitConstantStored(st, irConstant, t, ptr) ==
    [ sh |-> ptr.sh,
      constants |-> Append(st.constants,
           [op |-> irConstant.op, typeID |-> t.id, ptr |-> ptr.offset,
            intVal |-> irConstant.intVal,
            typeIDGrew |-> t.grew]) ]

\* bcConstants[cc]: op, type id, and for an integer literal its value in
\* the arena
emitConstant(st, irConstant, t) ==
    emitConstantStored(st, irConstant, t,
        IF irConstant.op = "IntLit" /\ t.sh.fail = "none"
        THEN allocateRaw(t.sh, SizeofIRIntegerValue, SizeofIRIntegerValue)
        ELSE [sh |-> t.sh, offset |-> NullPtr])

\* the constant pool of the module: one BCConstant per entry of the shared
\* constants list, constantCount of them; st is [sh, constants]
RECURSIVE emitConstants(_, _, _)
emitConstants(st, cc, constantCount) ==
    IF cc > constantCount \/ st.sh.fail # "none" THEN st
    ELSE emitConstants(
             emitConstant(st, st.sh.constants[cc].inst,
                          typeIDStore(st.sh, getTypeID(st.sh, st.sh.constants[cc].inst.type))),
             cc + 1, constantCount)

(***************************************************************************)
(* generateBytecodeContainer and generateBytecodeForCompileRequest         *)
(* (bytecode.cpp:1039-1085), as the steps of one run.                      *)
(***************************************************************************)
SizeofBCHeader == 24

\* BytecodeGenerationContext after construction
ContextInit == [mapInstToLocalID |-> EmptyMap]

\* the header before it is patched
HeaderInit == [offset |-> NullPtr, version |-> 0, moduleCount |-> 0, modulesOffset |-> NullPtr,
               modules |-> <<>>]

\* the module record being filled in
CurrentModule == bcModuleRecs[Len(bcModuleRecs)]

\* an exception leaves generateBytecodeForCompileRequest
Failed(sh) == sh.fail # "none"

\* the header record is in the arena
HeaderAllocated(a) ==
    /\ shared' = a.sh
    /\ header' = [HeaderInit EXCEPT !.offset = a.offset]

\* generateBytecodeContainer up to the loop: the header is allocated first
ContainerBegin ==
    /\ pc = "start"
    /\ HeaderAllocated(allocateRaw(shared, SizeofBCHeader, SizeofBCPtr))
    /\ pc' = "units"
    /\ tuIndex' = 1
    /\ UNCHANGED <<translationUnits, generatedBytecode, symIndex, context,
                   bcModulesList, bcModuleRecs, bcFuncRecs, probe, build>>

\* fault injection for ModuleNull: the null handle is not added to the list
ModuleNullDropped ==
    /\ pc = "units"
    /\ tuIndex <= Len(translationUnits)
    /\ translationUnits[tuIndex].isNull
    /\ tuIndex' = tuIndex + 1
    /\ UNCHANGED <<translationUnits, generatedBytecode, pc, symIndex, shared, context,
                   header, bcModulesList, bcModuleRecs, bcFuncRecs, probe, build>>

\* generateBytecodeForModule of a translation unit without an IR module
ModuleNull ==
    /\ pc = "units"
    /\ tuIndex <= Len(translationUnits)
    /\ translationUnits[tuIndex].isNull
    /\ bcModulesList' = Append(bcModulesList, NullPtr)
    /\ tuIndex' = tuIndex + 1
    /\ UNCHANGED <<translationUnits, generatedBytecode, pc, symIndex, shared, context,
                   header, bcModuleRecs, bcFuncRecs, probe, build>>

\* the symbols array is in the arena: symbolCount and symbols are stored
ModuleSymbolsAllocated(bcModule, pre, bcSymbols) ==
    /\ shared' = bcSymbols.sh
    /\ context' = [context EXCEPT !.mapInstToLocalID = pre.map]
    /\ bcModuleRecs' = Append(bcModuleRecs,
           [ tu |-> tuIndex, offset |-> bcModule.offset,
             symbolCount |-> pre.symbolCount, symbolsOffset |-> bcSymbols.offset,
             symbols |-> [i \in 1..pre.symbolCount |-> NullPtr],
             constantCount |-> 0, constantsOffset |-> NullPtr, constants |-> <<>>,
             typeCount |-> 0, typesOffset |-> NullPtr, types |-> <<>>,
             returned |-> FALSE ])

\* the pre-pass has numbered the global values
ModuleNumbered(bcModule, pre) ==
    ModuleSymbolsAllocated(bcModule, pre,
        allocateRaw(pre.sh, pre.symbolCount * SizeofBCPtr, SizeofBCPtr))

\* the BCModule record is in the arena
ModuleAllocated(bcModule) ==
    ModuleNumbered(bcModule,
        assignGlobalIDs([sh |-> bcModule.sh, map |-> context.mapInstToLocalID, symbolCount |-> 0],
                        tuIndex, translationUnits[tuIndex].globalInsts, 1))

\* generateBytecodeForModule up to the symbol loop: the BCModule record,
\* the pre-pass that numbers the global values, the symbols array
ModuleBegin ==
    /\ pc = "units"
    /\ tuIndex <= Len(translationUnits)
    /\ ~translationUnits[tuIndex].isNull
    /\ ModuleAllocated(allocateRaw(shared, SizeofBCModule, SizeofBCPtr))
    /\ pc' = "symbols"
    /\ symIndex' = 1
    /\ UNCHANGED <<translationUnits, generatedBytecode, tuIndex, header, bcModulesList,
                   bcFuncRecs, probe, build>>

\* one turn of the symbol loop: a global instruction that is no global value
SymbolSkip ==
    /\ pc = "symbols"
    /\ symIndex <= Len(translationUnits[tuIndex].globalInsts)
    /\ ~IsGlobalValue(translationUnits[tuIndex].globalInsts[symIndex])
    /\ symIndex' = symIndex + 1
    /\ UNCHANGED <<translationUnits, generatedBytecode, pc, tuIndex, shared, context,
                   header, bcModulesList, bcModuleRecs, bcFuncRecs, probe, build>>

\* the symbol has its name and goes to its slot of the symbols array
SymbolNamed(bcSymbol, symbolIndex, name) ==
    /\ shared' = name.sh
    /\ bcFuncRecs' = Append(bcFuncRecs, [bcSymbol.rec EXCEPT !.name = name.offset])
    /\ bcModuleRecs' = [bcModuleRecs EXCEPT
           ![Len(bcModuleRecs)].symbols[symbolIndex + 1] = bcSymbol.rec.offset]
    /\ symIndex' = symIndex + 1
    /\ pc' = pc

\* what the loop does with the result of generateBytecodeSymbolForInst: an
\* exception leaves the run, a null handle is skipped, anything else is
\* named and stored
SymbolGenerated(bcSymbol, symbolIndex, gv) ==
    IF Failed(bcSymbol.sh)
    THEN /\ shared' = bcSymbol.sh
         /\ bcFuncRecs' = Append(bcFuncRecs, bcSymbol.rec)
         /\ pc' = "failed"
         /\ UNCHANGED <<symIndex, bcModuleRecs>>
    ELSE IF bcSymbol.rec.offset = NullPtr
    THEN /\ symIndex' = symIndex + 1
         /\ bcFuncRecs' = Append(bcFuncRecs, bcSymbol.rec)
         /\ UNCHANGED <<shared, pc, bcModuleRecs>>
    ELSE SymbolNamed(bcSymbol, symbolIndex, tryGenerateNameForSymbol(bcSymbol.sh, gv))

\* one turn of the symbol loop: generateBytecodeSymbolForInst of a global
\* value, its name, its slot of the symbols array
SymbolStep ==
    /\ pc = "symbols"
    /\ symIndex <= Len(translationUnits[tuIndex].globalInsts)
    /\ IsGlobalValue(translationUnits[tuIndex].globalInsts[symIndex])
    /\ SymbolGenerated(
           generateBytecodeSymbolForInst(
               shared,
               Env(tuIndex, symIndex, translationUnits[tuIndex].globalInsts[symIndex],
                   translationUnits[tuIndex].globalInsts),
               translationUnits[tuIndex].globalInsts[symIndex]),
           context.mapInstToLocalID[<<tuIndex, GlobalRef(symIndex)>>],
           translationUnits[tuIndex].globalInsts[symIndex])
    /\ UNCHANGED <<translationUnits, generatedBytecode, tuIndex, context, header,
                   bcModulesList, probe, build>>

\* the type table is in the arena: the module record is complete and its
\* handle goes to the container's list
ModuleTypesAllocated(bcConstants, consts, bcTypes) ==
    /\ shared' = bcTypes.sh
    /\ bcModuleRecs' = [bcModuleRecs EXCEPT ![Len(bcModuleRecs)] =
           [@ EXCEPT !.constantCount = Len(shared.constants),
                     !.constantsOffset = bcConstants.offset,
                     !.constants = consts.constants,
                     !.typeCount = Len(consts.sh.bcTypes),
                     !.typesOffset = bcTypes.offset,
                     !.types = [tt \in 1..Len(consts.sh.bcTypes) |-> consts.sh.bcTypes[tt].offset],
                     !.returned = TRUE]]
    /\ bcModulesList' = Append(bcModulesList, CurrentModule.offset)
    /\ tuIndex' = tuIndex + 1
    /\ pc' = "units"

\* the constant pool is filled, unless a type id failed on the way
ModuleConstantsEmitted(bcConstants, consts) ==
    IF Failed(consts.sh)
    THEN /\ shared' = consts.sh
         /\ pc' = "failed"
         /\ UNCHANGED <<tuIndex, bcModulesList, bcModuleRecs>>
    ELSE ModuleTypesAllocated(bcConstants, consts,
             allocateRaw(consts.sh, Len(consts.sh.bcTypes) * SizeofBCPtr, SizeofBCPtr))

\* the BCConstant array is in the arena
ModuleConstantsAllocated(bcConstants) ==
    ModuleConstantsEmitted(bcConstants,
        emitConstants([sh |-> bcConstants.sh, constants |-> <<>>], 1, Len(shared.constants)))

\* generateBytecodeForModule after the symbol loop: the constant pool, then
\* the type table, then the handle goes to the container's list
ModuleEnd ==
    /\ pc = "symbols"
    /\ symIndex > Len(translationUnits[tuIndex].globalInsts)
    /\ ModuleConstantsAllocated(
           allocateRaw(shared, Len(shared.constants) * SizeofBCConstant, SizeofBCPtr))
    /\ UNCHANGED <<translationUnits, generatedBytecode, symIndex, context, header,
                   bcFuncRecs, probe, build>>

\* fault injection for ModulesAllocated: header->modules is the handle
\* getPtr<T>(context) gives, the end of the arena, not the array's handle
ModulesAllocatedAtEnd(bcModules) ==
    /\ shared' = bcModules.sh
    /\ header' = [header EXCEPT !.moduleCount = Len(bcModulesList),
                                 !.modulesOffset = bcModules.sh.bytecodeCount,
                                 !.modules = bcModulesList]
    /\ generatedBytecode' = bcModules.sh.bytecodeCount

\* the module pointer array is in the arena: the header is patched and the
\* arena becomes the request's generatedBytecode
ModulesAllocated(bcModules) ==
    /\ shared' = bcModules.sh
    /\ header' = [header EXCEPT !.moduleCount = Len(bcModulesList),
                                 !.modulesOffset = bcModules.offset,
                                 !.modules = bcModulesList]
    /\ generatedBytecode' = bcModules.sh.bytecodeCount

\* generateBytecodeContainer after the loop: the module count and the module
\* pointer array; then generateBytecodeForCompileRequest attaches the arena
ContainerEnd ==
    /\ pc = "units"
    /\ tuIndex > Len(translationUnits)
    /\ ModulesAllocated(allocateRaw(shared, Len(bcModulesList) * SizeofBCPtr, SizeofBCPtr))
    /\ pc' = "done"
    /\ UNCHANGED <<translationUnits, tuIndex, symIndex, context, bcModulesList,
                   bcModuleRecs, bcFuncRecs, probe, build>>

Next ==
    \/ ContainerBegin
    \/ ModuleNull
    \/ ModuleBegin
    \/ SymbolSkip
    \/ SymbolStep
    \/ ModuleEnd
    \/ ContainerEnd

(***************************************************************************)
(* The inputs.                                                             *)
(***************************************************************************)
ParamInt == Inst("Param", IntT, <<>>, 0)

ParamVoid == Inst("Param", VoidT, <<>>, 0)

VarInt == Inst("Var", PtrType(IntT), <<>>, 0)

IntLit42 == Inst("IntLit", IntT, <<>>, 42)

ReturnVoid == Inst("ReturnVoid", NullType, <<>>, 0)

\* store of the literal kept outside the blocks through the first instruction
StoreLit == Inst("Store", NullType, <<InstRef(1, 1), LitRef(1)>>, 0)

\* an ordinary instruction with a result and a global operand
Call(g) == Inst("Call", IntT, <<GlobalRef(g)>>, 0)

\* end of a block in the flat listing of a function body
Separator == Inst("|", NullType, <<>>, 0)

InstPool == {ParamInt, ParamVoid, VarInt, IntLit42, ReturnVoid, StoreLit}

RECURSIVE SplitBlocks(_, _, _)
SplitBlocks(flat, cur, acc) ==
    IF flat = <<>> THEN Append(acc, cur)
    ELSE IF Head(flat) = Separator THEN SplitBlocks(Tail(flat), <<>>, Append(acc, cur))
    ELSE SplitBlocks(Tail(flat), Append(cur, Head(flat)), acc)

CountOf(s, P(_)) == Cardinality({i \in 1..Len(s) : P(s[i])})

IsSeparator(x) == x = Separator

IsInst(x) == x # Separator

\* the IR keeps the parameters of a block at its head
ParamsFirst(block) ==
    \A i \in 1..Len(block) : block[i].op = "Param" => \A j \in 1..i : block[j].op = "Param"

\* every operand points to an instruction or a block that exists
RefsExist(blocks) ==
    \A b \in 1..Len(blocks) : \A i \in 1..Len(blocks[b]) :
        \A o \in 1..Len(blocks[b][i].operands) :
            LET ref == blocks[b][i].operands[o]
            IN  /\ ref.k = "inst" => ref.a \in 1..Len(blocks) /\ ref.b \in 1..Len(blocks[ref.a])
                /\ ref.k = "block" => ref.a \in 1..Len(blocks)

FuncBodies ==
    {<<>>} \cup
    { blocks \in { SplitBlocks(flat, <<>>, <<>>) :
                     flat \in { s \in SeqsUpTo(InstPool \cup {Separator}, MaxFuncInsts + MaxBlocks - 1) :
                                  /\ CountOf(s, IsSeparator) <= MaxBlocks - 1
                                  /\ CountOf(s, IsInst) <= MaxFuncInsts } } :
        /\ \A b \in 1..Len(blocks) : ParamsFirst(blocks[b])
        /\ RefsExist(blocks) }

\* a global instruction: [op, type, blocks, nameLen]
IRFunc(blocks) ==
    [op |-> "Func", type |-> FuncType(VoidT, <<>>), blocks |-> blocks, nameLen |-> 1]

GlobalVar == [op |-> "global_var", type |-> IntT, blocks |-> <<>>, nameLen |-> NullPtr]

WitnessTable == [op |-> "witness_table", type |-> NullType, blocks |-> <<>>, nameLen |-> NullPtr]

OtherInst == [op |-> "other", type |-> NullType, blocks |-> <<>>, nameLen |-> NullPtr]

IRModule(globalInsts) == [isNull |-> FALSE, globalInsts |-> globalInsts]

NoModule == [isNull |-> TRUE, globalInsts |-> <<>>]

\* module-level inputs: a listing of what each global instruction is; a
\* calling function names the first or the last global value of the
\* module, or itself
GlobalValueKinds == {"ret", "callFirst", "callLast", "callSelf", "var", "wtable"}

GlobalKinds == GlobalValueKinds \cup {"other"}

Min(S) == CHOOSE x \in S : \A y \in S : x <= y

Max(S) == CHOOSE x \in S : \A y \in S : x >= y

GlobalOfKind(kinds, g) ==
    LET gvs == {i \in 1..Len(kinds) : kinds[i] \in GlobalValueKinds}
        k == kinds[g]
    IN  CASE k = "ret" -> IRFunc(<<<<ReturnVoid>>>>)
          [] k = "callFirst" -> IRFunc(<<<<Call(Min(gvs)), ReturnVoid>>>>)
          [] k = "callLast" -> IRFunc(<<<<Call(Max(gvs)), ReturnVoid>>>>)
          [] k = "callSelf" -> IRFunc(<<<<Call(g), ReturnVoid>>>>)
          [] k = "varStore" -> IRFunc(<<<<VarInt, StoreLit, ReturnVoid>>>>)
          [] k = "var" -> GlobalVar
          [] k = "wtable" -> WitnessTable
          [] OTHER -> OtherInst

ModuleOfKinds(kinds) == IRModule([g \in 1..Len(kinds) |-> GlobalOfKind(kinds, g)])

Modules == {ModuleOfKinds(kinds) : kinds \in SeqsUpTo(GlobalKinds, MaxGlobals)}

\* container-level inputs
UnitKinds == {"ret", "varStore", "var"}

Units == {NoModule} \cup {ModuleOfKinds(kinds) : kinds \in SeqsUpTo(UnitKinds, MaxUnitGlobals)}

Requests == SeqsUpTo(Units, MaxUnits)

(***************************************************************************)
(* Specifications.                                                         *)
(***************************************************************************)
ProbeInit == [calls |-> <<>>, currentBytecode |-> <<>>]

\* what the build makes of a member call through a null pointer, whether
\* it evaluates assert, and what becomes of a typeID store whose value grew
\* the arena
Builds == [nullThis : {"fault", "null"}, ndebug : BOOLEAN,
           staleStore : {"lands", "lost", "fault"}]

\* the build whose choices are the ones a conforming run never meets
DefaultBuild == [nullThis |-> "fault", ndebug |-> FALSE, staleStore |-> "lands"]

\* the instructions in the blocks of the functions of a compile request
InstsOf(request) ==
    UNION { UNION { UNION { { request[m].globalInsts[g].blocks[b][i] :
                                  i \in DOMAIN request[m].globalInsts[g].blocks[b] } :
                            b \in DOMAIN request[m].globalInsts[g].blocks } :
                    g \in DOMAIN request[m].globalInsts } :
            m \in DOMAIN request }

\* the request can bring a null type to emitBCType or to getValueType: an
\* instruction without a data type other than a return or a store of a
\* literal, a var whose type is no pointer, a global variable or constant
\* without a type
MeetsNullType(request) ==
    \/ \E inst \in InstsOf(request) :
          \/ /\ inst.type.k = "null"
             /\ inst.op # "ReturnVoid"
             /\ ~(inst.op = "Store" /\ inst.operands[2].k \in {"lit", "floatlit"})
          \/ inst.op = "Var" /\ canonicalOf(inst.type).k # "ptr"
    \/ \E m \in DOMAIN request : \E g \in DOMAIN request[m].globalInsts :
          /\ request[m].globalInsts[g].op \in {"global_var", "global_constant"}
          /\ request[m].globalInsts[g].type.k = "null"

\* the request can make the counted and the populated registers differ: a
\* parameter that has no result
MeetsAssert(request) ==
    \E inst \in InstsOf(request) : inst.op = "Param" /\ ~opHasResult(inst)

\* the builds that can tell themselves apart on the request: a choice the
\* request never reaches is left as DefaultBuild has it
BuildsFor(request) ==
    { b \in Builds : /\ MeetsNullType(request) \/ b.nullThis = DefaultBuild.nullThis
                     /\ MeetsAssert(request) \/ b.ndebug = DefaultBuild.ndebug }

\* fresh contexts, as generateBytecodeForCompileRequest constructs them
InitRun(request, at, builds) ==
    /\ translationUnits = request
    /\ generatedBytecode = NullPtr
    /\ pc = at
    /\ tuIndex = 0
    /\ symIndex = 0
    /\ shared = SharedInit
    /\ context = ContextInit
    /\ header = HeaderInit
    /\ bcModulesList = <<>>
    /\ bcModuleRecs = <<>>
    /\ bcFuncRecs = <<>>
    /\ probe = ProbeInit
    /\ build \in builds

\* compile requests of one module of one function
FuncRequests == {<<IRModule(<<IRFunc(blocks)>>)>> : blocks \in FuncBodies}

\* a store through ptr
StoreTo(ptr, value) == Inst("Store", NullType, <<ptr, value>>, 0)

\* a branch to block b: an instruction of the default encoding without a
\* data type
Branch(b) == Inst("unconditionalBranch", NullType, <<BlockRef(b)>>, 0)

\* function bodies beyond the pool: a store of the floating-point literal
\* kept outside the blocks; a block that branches to itself
ScenarioBodies ==
    { <<<<VarInt, StoreTo(InstRef(1, 1), FloatLitRef), ReturnVoid>>>>,
      <<<<Branch(1)>>>> }

\* a function without a data type
IRFuncNoType(blocks) == [IRFunc(blocks) EXCEPT !.type = NullType]

\* a function of type () -> int
IRFuncToInt(blocks) == [IRFunc(blocks) EXCEPT !.type = FuncType(IntT, <<>>)]

\* modules beyond the listings: a function without a data type, alone and
\* after a global variable; a function of type () -> int, whose type
\* table starts with int, with an integer literal in its entry block;
\* two functions that store literals kept outside the blocks, one of the
\* literals twice and one in both functions, the second function calling
\* the first
ScenarioModules ==
    { IRModule(<<IRFuncNoType(<<<<ReturnVoid>>>>)>>),
      IRModule(<<GlobalVar, IRFuncNoType(<<<<ReturnVoid>>>>)>>),
      IRModule(<<IRFuncToInt(<<<<IntLit42, ReturnVoid>>>>)>>),
      IRModule(<<IRFunc(<<<<VarInt, StoreTo(InstRef(1, 1), LitRef(2)),
                            StoreTo(InstRef(1, 1), LitRef(1)),
                            StoreTo(InstRef(1, 1), LitRef(2)), ReturnVoid>>>>),
                 IRFunc(<<<<VarInt, StoreTo(InstRef(1, 1), LitRef(1)),
                            StoreTo(InstRef(1, 1), LitRef(3)), Call(1), ReturnVoid>>>>)>>) }

\* compile requests of one such module
ScenarioRequests ==
    {<<IRModule(<<IRFunc(blocks)>>)>> : blocks \in ScenarioBodies}
        \cup {<<irModule>> : irModule \in ScenarioModules}

\* compile requests of one module of up to MaxGlobals global instructions
ModuleRequests == {<<irModule>> : irModule \in Modules}

\* generateBytecodeForCompileRequest is entered with a compile request: up
\* to MaxUnits translation units, or one module of up to MaxGlobals global
\* instructions, or one module of one function
Init ==
    \E request \in Requests \cup ModuleRequests \cup FuncRequests \cup ScenarioRequests :
        InitRun(request, "start", BuildsFor(request))

Spec == Init /\ [][Next]_vars

(***************************************************************************)
(* Direct calls of the variable-length integer encoders on one buffer.     *)
(***************************************************************************)
\* the values handed to encodeUInt: a dense range and the group boundaries
UIntValues == 0..MaxVarValue \cup {255, 256, 16383, 16384, 16385, 2097151, 2097152}

\* the values handed to encodeSInt
SIntValues == (-MaxVarValue)..MaxVarValue \cup {8191, 8192, -8192, -8193, 1048576, -1048577}

\* one call, as the probe keeps it: the bytes before and after
VarCall(fn, value, before, after) ==
    [fn |-> fn, value |-> value, before |-> before, after |-> after]

EncodeUIntCall ==
    /\ pc = "varint"
    /\ Len(probe.currentBytecode) < MaxProbeBytes
    /\ \E value \in UIntValues :
          probe' = [calls |-> Append(probe.calls,
                                     VarCall("encodeUInt", value, probe.currentBytecode,
                                             encodeUInt(probe.currentBytecode, value))),
                    currentBytecode |-> encodeUInt(probe.currentBytecode, value)]
    /\ UNCHANGED <<translationUnits, generatedBytecode, pc, tuIndex, symIndex, shared,
                   context, header, bcModulesList, bcModuleRecs, bcFuncRecs, build>>

EncodeSIntCall ==
    /\ pc = "varint"
    /\ Len(probe.currentBytecode) < MaxProbeBytes
    /\ \E value \in SIntValues :
          probe' = [calls |-> Append(probe.calls,
                                     VarCall("encodeSInt", value, probe.currentBytecode,
                                             encodeSInt(probe.currentBytecode, value))),
                    currentBytecode |-> encodeSInt(probe.currentBytecode, value)]
    /\ UNCHANGED <<translationUnits, generatedBytecode, pc, tuIndex, symIndex, shared,
                   context, header, bcModulesList, bcModuleRecs, bcFuncRecs, build>>

NextVarint == EncodeUIntCall \/ EncodeSIntCall

InitVarint == InitRun(<<>>, "varint", {DefaultBuild})

SpecVarint == InitVarint /\ [][NextVarint]_vars

(***************************************************************************)
(* Direct calls of the type interner on one shared context.                *)
(***************************************************************************)
\* the types handed to the interner
TypeUniverse ==
    { NullType, VoidT, BoolT, IntT, FloatT,
      AliasType("MyInt", IntT),
      PtrType(IntT), PtrType(AliasType("MyInt", IntT)),
      FuncType(VoidT, <<>>), FuncType(BoolT, <<FloatT, FloatT>>),
      FuncType(AliasType("MyInt", IntT), <<PtrType(IntT)>>),
      RWStructuredBufferType(FloatT), StructuredBufferType(IntT),
      VectorType(FloatT), FuncType(IntT, <<VectorType(FloatT)>>) }

\* one call, as the probe keeps it: the argument, the shared context before
\* and after, and what came back
TypeCall(fn, type, before, after, result) ==
    [fn |-> fn, type |-> type, before |-> before, after |-> after, result |-> result]

\* the interner has returned e to a direct emitBCType call
EmitBCTypeReturned(type, e) ==
    /\ shared' = e.sh
    /\ probe' = [probe EXCEPT !.calls = Append(@, TypeCall("emitBCType", type, shared, e.sh,
                     IF e.sh.fail # "none" THEN NullPtr ELSE BCTypeAt(e.sh, e.ptr).id))]
    /\ pc' = IF e.sh.fail # "none" THEN "failed" ELSE pc

EmitBCTypeCall ==
    /\ pc = "types"
    /\ Len(probe.calls) < MaxTypeCalls
    /\ \E type \in TypeUniverse : EmitBCTypeReturned(type, emitBCType(shared, type))
    /\ UNCHANGED <<translationUnits, generatedBytecode, tuIndex, symIndex, context, header,
                   bcModulesList, bcModuleRecs, bcFuncRecs, build>>

\* getTypeID has returned t to a direct call
GetTypeIDReturned(type, t) ==
    /\ shared' = t.sh
    /\ probe' = [probe EXCEPT !.calls = Append(@, TypeCall("getTypeID", type, shared, t.sh,
                     IF t.sh.fail # "none" THEN NullPtr ELSE t.id))]
    /\ pc' = IF t.sh.fail # "none" THEN "failed" ELSE pc

GetTypeIDCall ==
    /\ pc = "types"
    /\ Len(probe.calls) < MaxTypeCalls
    /\ \E type \in TypeUniverse : GetTypeIDReturned(type, getTypeID(shared, type))
    /\ UNCHANGED <<translationUnits, generatedBytecode, tuIndex, symIndex, context, header,
                   bcModulesList, bcModuleRecs, bcFuncRecs, build>>

NextTypes == EmitBCTypeCall \/ GetTypeIDCall

\* the type probes do no typeID store and no assert
InitTypes == InitRun(<<>>, "types", {b \in Builds : /\ b.ndebug = DefaultBuild.ndebug
                                                    /\ b.staleStore = DefaultBuild.staleStore})

SpecTypes == InitTypes /\ [][NextTypes]_vars


(***************************************************************************)
(* Direct calls of the arena allocator on one shared context.  Here the    *)
(* arena is kept byte by byte, next to its length in the shared context.   *)
(***************************************************************************)
\* the alignments asked for: alignof of the records, powers of two
Alignments == {1, 2, 4, 8}

\* the loop of allocateRaw: one zero byte for every index from the current
\* length up to the end of the allocation
RECURSIVE zeroFill(_, _, _)
zeroFill(bytecode, ii, endOffset) ==
    IF ii < endOffset THEN zeroFill(Append(bytecode, 0), ii + 1, endOffset) ELSE bytecode

\* one call, as the probe keeps it: the arguments, the arena bytes before
\* and after, and the offset that came back
ArenaCall(fn, size, alignment, before, after, offset) ==
    [fn |-> fn, size |-> size, alignment |-> alignment, before |-> before, after |-> after,
     offset |-> offset]

\* the arena bytes after the calls so far
Arena == IF probe.calls = <<>> THEN <<>> ELSE probe.calls[Len(probe.calls)].after

\* allocateRaw has returned a to a direct call
AllocateRawReturned(size, alignment, a) ==
    /\ shared' = a.sh
    /\ probe' = [probe EXCEPT !.calls = Append(@,
                     ArenaCall("allocateRaw", size, alignment, Arena,
                               zeroFill(Arena, Len(Arena), a.offset + size), a.offset))]

AllocateRawCall ==
    /\ pc = "arena"
    /\ Len(probe.calls) < MaxArenaCalls
    /\ \E size \in 0..MaxAllocSize, alignment \in Alignments :
          AllocateRawReturned(size, alignment, allocateRaw(shared, size, alignment))
    /\ UNCHANGED <<translationUnits, generatedBytecode, pc, tuIndex, symIndex, context, header,
                   bcModulesList, bcModuleRecs, bcFuncRecs, build>>

\* a store through the handle an earlier call returned: getPtr() of the
\* handle is the arena's buffer plus the offset, index picks the byte
ArenaStoreCall ==
    /\ pc = "arena"
    /\ Len(probe.calls) < MaxArenaCalls
    /\ \E c \in 1..Len(probe.calls) : \E index \in 0..(probe.calls[c].size - 1) :
          /\ probe.calls[c].fn = "allocateRaw"
          /\ probe' = [probe EXCEPT !.calls = Append(@,
                           ArenaCall("store", 1, 1, Arena,
                                     [Arena EXCEPT ![probe.calls[c].offset + index + 1] = 255],
                                     probe.calls[c].offset + index))]
    /\ UNCHANGED <<translationUnits, generatedBytecode, pc, tuIndex, symIndex, shared, context,
                   header, bcModulesList, bcModuleRecs, bcFuncRecs, build>>

NextArena == AllocateRawCall \/ ArenaStoreCall

InitArena == InitRun(<<>>, "arena", {DefaultBuild})

SpecArena == InitArena /\ [][NextArena]_vars

(***************************************************************************)
(* The variable-length integer format.                                     *)
(***************************************************************************)
\* the leading bytes of the format: the groups above the lowest one, most
\* significant first, each with the top bit set
RECURSIVE uvarLeading(_)
uvarLeading(v) == IF v = 0 THEN <<>> ELSE Append(uvarLeading(v \div 128), (v % 128) + 128)

\* uvar of the format: one byte below 128; else the 7-bit groups most
\* significant first, the top bit set on every byte but the last
uvar(v) == IF v < 128 THEN <<v>> ELSE Append(uvarLeading(v \div 128), v % 128)

\* the decoder of the format from position pos (1-based) of bytes, with
\* acc accumulated so far: 7 bits per byte, stop after the first byte whose
\* top bit is 0 (or at the end of the bytes)
RECURSIVE decodeUInt(_, _, _)
decodeUInt(bytes, pos, acc) ==
    IF pos > Len(bytes) THEN [value |-> acc, next |-> pos]
    ELSE IF bytes[pos] < 128 THEN [value |-> (acc * 128) + bytes[pos], next |-> pos + 1]
    ELSE decodeUInt(bytes, pos + 1, (acc * 128) + (bytes[pos] - 128))

\* undo the zig-zag
unZigZag(u) == IF u % 2 = 1 THEN -((u - 1) \div 2) - 1 ELSE u \div 2

\* the decoder of the signed form
decodeSInt(bytes, pos) ==
    [value |-> unZigZag(decodeUInt(bytes, pos, 0).value), next |-> decodeUInt(bytes, pos, 0).next]

\* C1: every encodeUInt call appends uvar(value): one byte for a value
\* below 128, else the 7-bit groups most significant first with the top
\* bit set on every byte except the last one emitted; uvar(0) = 00,
\* uvar(127) = 7F, uvar(128) = 81 00, uvar(16384) = 81 80 00.
C1_EncodeUIntFormat ==
    \A i \in 1..Len(probe.calls) :
        LET call == probe.calls[i]
        IN  call.fn = "encodeUInt" =>
                /\ call.after = call.before \o uvar(call.value)
                /\ call.value = 0 => call.after = call.before \o <<0>>
                /\ call.value = 127 => call.after = call.before \o <<127>>
                /\ call.value = 128 => call.after = call.before \o <<129, 0>>
                /\ call.value = 16384 => call.after = call.before \o <<129, 128, 0>>

\* C2: decoding what encodeUInt / encodeSInt appended gives the value back,
\* and the decoder consumes exactly the bytes that were appended.
C2_RoundTrip ==
    \A i \in 1..Len(probe.calls) :
        LET call == probe.calls[i]
            start == Len(call.before) + 1
        IN  /\ call.fn = "encodeUInt" =>
                  decodeUInt(call.after, start, 0) = [value |-> call.value, next |-> Len(call.after) + 1]
            /\ call.fn = "encodeSInt" =>
                  decodeSInt(call.after, start) = [value |-> call.value, next |-> Len(call.after) + 1]

(***************************************************************************)
(* The type table.                                                         *)
(***************************************************************************)
\* a canonical type and the types it is built from
RECURSIVE TypeClosure(_)
TypeClosure(type) == {type} \cup UNION {TypeClosure(type.args[i]) : i \in 1..Len(type.args)}

\* the canonical types the calls of S referenced
ReferencedTypes(S) == UNION {TypeClosure(canonicalOf(probe.calls[i].type)) : i \in S}

\* the direct calls that returned
ReturnedCalls == {i \in 1..Len(probe.calls) : probe.calls[i].after.fail = "none"}

GlobalValuesUpTo(m, n) ==
    {g \in 1..n : IsGlobalValue(translationUnits[m].globalInsts[g])}

\* the global values of unit m
GlobalValuesOf(m) == GlobalValuesUpTo(m, Len(translationUnits[m].globalInsts))

\* the position of global instruction g among the global values of unit m
PositionOf(m, g) == Cardinality(GlobalValuesUpTo(m, g - 1))

\* the operands of the instructions of a function
AllOperands(irFunc) ==
    UNION { UNION { {irFunc.blocks[b][i].operands[o] : o \in 1..Len(irFunc.blocks[b][i].operands)} :
                      i \in 1..Len(irFunc.blocks[b]) } :
              b \in 1..Len(irFunc.blocks) }

\* the operands that name a global instruction
GlobalOperands(irFunc) == {ref \in AllOperands(irFunc) : ref.k = "global"}

\* the BCFunc records
FuncRecs == {i \in 1..Len(bcFuncRecs) : bcFuncRecs[i].kind = "func"}

\* the IR function a BCFunc record was made from
IRFuncOf(rec) == translationUnits[rec.m].globalInsts[rec.g]

\* C5: the pre-pass gives every global value of a module the id equal to
\* its position among the module's global values, before any symbol of
\* the module is encoded; an operand naming a global value of the module
\* resolves to BCConst{GlobalSymbol, that id}, be the global declared
\* before or after the function or be it the function itself, and a
\* function whose operands all name global values never hits the
\* 'no ID for inst' error.
C5_GlobalSymbolPrePass ==
    /\ \A r \in 1..Len(bcModuleRecs) :
          LET m == bcModuleRecs[r].tu
          IN  /\ bcModuleRecs[r].symbolCount = Cardinality(GlobalValuesOf(m))
              /\ \A g \in GlobalValuesOf(m) :
                    /\ <<m, GlobalRef(g)>> \in DOMAIN context.mapInstToLocalID
                    /\ context.mapInstToLocalID[<<m, GlobalRef(g)>>] = PositionOf(m, g)
                    /\ <<m, GlobalRef(g)>> \in DOMAIN shared.mapValueToGlobal
                    /\ shared.mapValueToGlobal[<<m, GlobalRef(g)>>] =
                           BCConst("GlobalSymbol", PositionOf(m, g))
    /\ \A i \in 1..Len(bcFuncRecs) :
          \E r \in 1..Len(bcModuleRecs) : bcModuleRecs[r].tu = bcFuncRecs[i].m
    /\ \A i \in FuncRecs :
          LET rec == bcFuncRecs[i]
              irFunc == IRFuncOf(rec)
          IN  /\ (shared.fail = "no ID for inst" /\ i = Len(bcFuncRecs))
                     => AllOperands(irFunc) # GlobalOperands(irFunc)
              /\ rec.emitted =>
                    \A ref \in GlobalOperands(irFunc) :
                        /\ ref \in DOMAIN rec.mapInstToLocalID
                        /\ rec.mapInstToLocalID[ref] < 0
                        /\ rec.remappedGlobalSymbols[-rec.mapInstToLocalID[ref]] =
                               BCConst("GlobalSymbol", PositionOf(rec.m, ref.a))

\* C5 witness: the run is over and an encoded function names a global
\* value declared after it
C5_Witness ==
    /\ pc = "done"
    /\ \E i \in FuncRecs :
          /\ bcFuncRecs[i].emitted
          /\ \E ref \in GlobalOperands(IRFuncOf(bcFuncRecs[i])) : ref.a > bcFuncRecs[i].g

\* C6: an empty IR module produces a module record with symbolCount = 0,
\* constantCount = 0 and typeCount = 0, wherever it stands in the request.
C6_EmptyModuleCounts ==
    \A r \in 1..Len(bcModuleRecs) :
        (bcModuleRecs[r].returned /\ translationUnits[bcModuleRecs[r].tu].globalInsts = <<>>)
            => /\ bcModuleRecs[r].symbolCount = 0
               /\ bcModuleRecs[r].constantCount = 0
               /\ bcModuleRecs[r].typeCount = 0

\* the module records made for translation unit i
ModuleRecsOf(i) == {r \in 1..Len(bcModuleRecs) : bcModuleRecs[r].tu = i}

\* C7 (as stated): each translation unit yields one BCModule record,
\* header.moduleCount is the number of module records, and modules[i]
\* refers to the record of the i-th unit.
C7_OneModulePerUnit ==
    pc = "done" =>
        /\ \A i \in 1..Len(translationUnits) : Cardinality(ModuleRecsOf(i)) = 1
        /\ header.moduleCount = Len(bcModuleRecs)
        /\ \A i \in 1..header.moduleCount :
              \E r \in ModuleRecsOf(i) : header.modules[i] = bcModuleRecs[r].offset

\* C7: each translation unit that has an IR module yields one BCModule
\* record, the others none; header.moduleCount is the number of
\* translation units; modules[i] refers to the record of the i-th unit,
\* whose symbolCount is the number of its global values, or is null when
\* that unit has no IR module.
C7_ContainerAssembly ==
    pc = "done" =>
        /\ header.moduleCount = Len(translationUnits)
        /\ Len(header.modules) = header.moduleCount
        /\ \A i \in 1..Len(translationUnits) :
              IF translationUnits[i].isNull
              THEN /\ ModuleRecsOf(i) = {}
                   /\ header.modules[i] = NullPtr
              ELSE /\ Cardinality(ModuleRecsOf(i)) = 1
                   /\ \A r \in ModuleRecsOf(i) :
                         /\ header.modules[i] = bcModuleRecs[r].offset
                         /\ bcModuleRecs[r].offset # NullPtr
                         /\ bcModuleRecs[r].returned
                         /\ bcModuleRecs[r].symbolCount = Cardinality(GlobalValuesOf(i))
        /\ \A r, q \in 1..Len(bcModuleRecs) :
              bcModuleRecs[r].offset = bcModuleRecs[q].offset => r = q

\* C7 witness: a finished container of a unit without an IR module and a
\* unit with one
C7_Witness ==
    /\ pc = "done"
    /\ \E i, j \in 1..Len(translationUnits) :
          translationUnits[i].isNull /\ ~translationUnits[j].isNull

(***************************************************************************)
(* Functions.                                                              *)
(***************************************************************************)
\* the instructions of a block that satisfy P
CountInsts(block, P(_)) == Cardinality({i \in 1..Len(block) : P(block[i])})

IsParam(inst) == inst.op = "Param"

IsVar(inst) == inst.op = "Var"

IsOtherWithResult(inst) == inst.op \notin {"Param", "Var"} /\ opHasResult(inst)

\* sum over the blocks of params + 2 * vars + other results
ExpectedRegCount(blocks) ==
    SumSeq([b \in 1..Len(blocks) |->
               CountInsts(blocks[b], IsParam) + (2 * CountInsts(blocks[b], IsVar))
                   + CountInsts(blocks[b], IsOtherWithResult)])

\* C8: regCount is the sum over the blocks of (Param instructions + 2 * var
\* instructions + other instructions with a non-void result), and the
\* population pass hands out exactly regCount registers: the assertion
\* regCounter == regCount holds for every function.
C8_RegisterAccounting ==
    /\ shared.fail # "assert"
    /\ \A i \in FuncRecs :
          LET rec == bcFuncRecs[i]
          IN  /\ rec.regsOffset # NullPtr => rec.regCount = ExpectedRegCount(IRFuncOf(rec).blocks)
              /\ rec.populated => rec.regCounter = rec.regCount

\* the keys of the local-id map of a function that are blocks
BlockKeys(rec) == {x \in DOMAIN rec.mapInstToLocalID : x.k = "block"}

\* the keys that are no blocks
ValueKeys(rec) == DOMAIN rec.mapInstToLocalID \ BlockKeys(rec)

\* C9 (as stated): no two distinct keys of a function's local-id map share
\* a non-negative local id.
C9_NoSharedLocalID ==
    \A i \in FuncRecs :
        \A x, y \in DOMAIN bcFuncRecs[i].mapInstToLocalID :
            (x # y /\ bcFuncRecs[i].mapInstToLocalID[x] >= 0)
                => bcFuncRecs[i].mapInstToLocalID[x] # bcFuncRecs[i].mapInstToLocalID[y]

\* C9: within one function no two blocks share a local id (block b has id
\* b), and no two instructions that are no blocks share a non-negative
\* local id, which is a register below regCount; a block and an
\* instruction may share one.
C9_IdentifierDisjointness ==
    \A i \in FuncRecs :
        LET rec == bcFuncRecs[i]
            map == rec.mapInstToLocalID
        IN  /\ \A x \in BlockKeys(rec) : map[x] = x.a - 1
            /\ \A x, y \in ValueKeys(rec) : (x # y /\ map[x] >= 0) => map[x] # map[y]
            /\ \A x \in ValueKeys(rec) : map[x] < rec.regCount

\* C9 witness: an encoded function of two blocks and two registers bound
\* to instructions, where a block and an instruction share a local id
C9_Witness ==
    \E i \in FuncRecs :
        LET rec == bcFuncRecs[i]
            map == rec.mapInstToLocalID
        IN  /\ rec.emitted
            /\ rec.blockCount >= 2
            /\ Cardinality({x \in ValueKeys(rec) : map[x] >= 0}) >= 2
            /\ \E x \in BlockKeys(rec), y \in ValueKeys(rec) : map[x] = map[y]

\* the BCFunc records whose code array is in the arena
CodedFuncRecs == {i \in FuncRecs : bcFuncRecs[i].bytes # NullPtr}

\* C10 (as stated): block code offsets are non-decreasing, block 0 starts
\* at the base of the code array, and base <= code < base + byteCount for
\* every block.
C10_CodeInsideArray ==
    \A i \in CodedFuncRecs :
        LET rec == bcFuncRecs[i]
        IN  /\ \A b \in 1..(rec.blockCount - 1) : rec.blockCode[b] <= rec.blockCode[b + 1]
            /\ rec.blockCount >= 1 => rec.blockCode[1] = rec.bytes
            /\ \A b \in 1..rec.blockCount :
                  rec.bytes <= rec.blockCode[b] /\ rec.blockCode[b] < rec.bytes + rec.byteCount

\* a block with an instruction that is no Param emits code
EmitsCode(block) == \E k \in 1..Len(block) : block[k].op # "Param"

\* the bytes block b of a function emits
BlockBytes(rec, b) ==
    (IF b < rec.blockCount THEN rec.blockOffsets[b + 1] ELSE rec.byteCount) - rec.blockOffsets[b]

\* C10: block code offsets are non-decreasing, block 0 starts at the base
\* of the code array, and base <= code <= base + byteCount for every
\* block; code < base + byteCount exactly when the block or a later one
\* emits a byte.
C10_BlockCodeOffsets ==
    \A i \in CodedFuncRecs :
        LET rec == bcFuncRecs[i]
        IN  /\ \A b \in 1..(rec.blockCount - 1) : rec.blockCode[b] <= rec.blockCode[b + 1]
            /\ rec.blockCount >= 1 => rec.blockCode[1] = rec.bytes
            /\ \A b \in 1..rec.blockCount :
                  /\ rec.bytes <= rec.blockCode[b]
                  /\ rec.blockCode[b] <= rec.bytes + rec.byteCount
                  /\ (rec.blockCode[b] < rec.bytes + rec.byteCount)
                         <=> (\E c \in b..rec.blockCount : EmitsCode(IRFuncOf(rec).blocks[c]))

\* C10 witness: a function whose first block emits bytes and whose last
\* block emits none
C10_Witness ==
    \E i \in CodedFuncRecs :
        LET rec == bcFuncRecs[i]
        IN  /\ rec.blockCount >= 2
            /\ BlockBytes(rec, 1) > 0
            /\ BlockBytes(rec, rec.blockCount) = 0
            /\ rec.blockCode[rec.blockCount] = rec.bytes + rec.byteCount


(***************************************************************************)
(* The arena and the offsets stored in it.                                 *)
(***************************************************************************)
\* an offset a record holds, with the number of bytes it refers to
Published(offset, size) == [offset |-> offset, size |-> size]

\* the offsets the header holds
HeaderOffsets ==
    {Published(header.offset, SizeofBCHeader),
     Published(header.modulesOffset, header.moduleCount * SizeofBCPtr)}
    \cup {Published(header.modules[i], SizeofBCModule) : i \in 1..Len(header.modules)}

\* the offsets a BCModule record holds
ModuleOffsets(rec) ==
    {Published(rec.symbolsOffset, rec.symbolCount * SizeofBCPtr),
     Published(rec.constantsOffset, rec.constantCount * SizeofBCConstant),
     Published(rec.typesOffset, rec.typeCount * SizeofBCPtr)}
    \cup {Published(rec.symbols[i], SizeofBCSymbol) : i \in 1..Len(rec.symbols)}
    \cup {Published(rec.constants[i].ptr, SizeofIRIntegerValue) : i \in 1..Len(rec.constants)}
    \cup {Published(rec.types[i], SizeofBCType) : i \in 1..Len(rec.types)}

\* the offsets a BCFunc record holds, block records included
FuncOffsets(rec) ==
    {Published(rec.blocksOffset, rec.blockCount * SizeofBCBlock),
     Published(rec.regsOffset, rec.regCount * SizeofBCReg),
     Published(rec.constsOffset, rec.constCount * SizeofBCConst)}
    \cup {Published(rec.regsOffset + (rec.blockParams[b] * SizeofBCReg),
                    rec.paramCounts[b] * SizeofBCReg) : b \in 1..Len(rec.blockParams)}
    \cup {Published(rec.blockCode[b], rec.byteCount - rec.blockOffsets[b]) :
            b \in 1..Len(rec.blockCode)}

\* the offsets a symbol record of any kind holds
SymbolOffsets(rec) ==
    {Published(rec.name, 1)} \cup (IF rec.kind = "func" THEN FuncOffsets(rec) ELSE {})

\* the offsets the BCType records hold: their type arguments
TypeOffsets ==
    UNION { {Published(shared.bcTypes[t].args[a], SizeofBCType) :
               a \in 1..Len(shared.bcTypes[t].args)} : t \in 1..Len(shared.bcTypes) }

\* every non-null offset stored in a record
PublishedOffsets ==
    {p \in HeaderOffsets \cup TypeOffsets
           \cup UNION {ModuleOffsets(bcModuleRecs[r]) : r \in 1..Len(bcModuleRecs)}
           \cup UNION {SymbolOffsets(bcFuncRecs[i]) : i \in 1..Len(bcFuncRecs)} :
        p.offset # NullPtr}

\* C11 (as stated): at the end of generation every non-null offset stored
\* in a record is strictly less than the final arena length, also when the
\* array it refers to has no elements.
C11_NoDanglingOffset ==
    pc = "done" => \A p \in PublishedOffsets : p.offset < generatedBytecode

\* C11: at the end of generation the bytes every non-null stored offset
\* refers to lie inside the arena, offset + size <= final length; the
\* offset is strictly less than the final length whenever it refers to at
\* least one byte, and may equal it for an array of no elements.
C11_OffsetsInsideArena ==
    pc = "done" =>
        /\ generatedBytecode = shared.bytecodeCount
        /\ \A p \in PublishedOffsets :
              /\ 0 <= p.offset
              /\ p.offset + p.size <= generatedBytecode
              /\ p.size > 0 => p.offset < generatedBytecode

\* C11 witness: a finished container whose records hold the offset of an
\* array of no elements and the offset of a function's code
C11_Witness ==
    /\ pc = "done"
    /\ \E p \in PublishedOffsets : p.size = 0
    /\ \E i \in FuncRecs : bcFuncRecs[i].byteCount > 0

\* the direct allocateRaw calls made so far
AllocCalls == {c \in 1..Len(probe.calls) : probe.calls[c].fn = "allocateRaw"}

\* what C12 says of one call: the offset is a multiple of the alignment
\* and at least the length before, the length does not decrease, the bytes
\* before the call are kept and the bytes added are zero
AllocCallOK(call) ==
    /\ call.offset % call.alignment = 0
    /\ call.offset >= Len(call.before)
    /\ Len(call.after) >= Len(call.before)
    /\ \A i \in 1..Len(call.before) : call.after[i] = call.before[i]
    /\ \A i \in (Len(call.before) + 1)..Len(call.after) : call.after[i] = 0

\* C12 (as stated): every returned offset is a multiple of the alignment
\* and at least the arena length before the call, the arena length never
\* decreases, all bytes added are zero, and no two calls return the same
\* offset or overlapping byte ranges.
C12_ArenaAllocation ==
    /\ \A c \in AllocCalls : AllocCallOK(probe.calls[c])
    /\ \A c \in 2..Len(probe.calls) : Len(probe.calls[c].after) >= Len(probe.calls[c - 1].after)
    /\ \A c, d \in AllocCalls :
          c < d => /\ probe.calls[c].offset # probe.calls[d].offset
                   /\ probe.calls[c].offset + probe.calls[c].size <= probe.calls[d].offset

\* C12: as stated, but two calls may return the same offset: a later
\* call's offset is at least the earlier call's offset plus its size, so
\* the byte ranges never overlap and two calls return the same offset only
\* when the earlier one asked for no bytes; each call's range ends at the
\* arena length after the call, which is the length the shared context
\* counts.
C12_ArenaRangesDisjoint ==
    /\ \A c \in AllocCalls :
          /\ AllocCallOK(probe.calls[c])
          /\ probe.calls[c].offset + probe.calls[c].size = Len(probe.calls[c].after)
    /\ \A c \in 2..Len(probe.calls) : Len(probe.calls[c].after) >= Len(probe.calls[c - 1].after)
    /\ pc = "arena" => Len(Arena) = shared.bytecodeCount
    /\ \A c, d \in AllocCalls :
          c < d => /\ probe.calls[c].offset + probe.calls[c].size <= probe.calls[d].offset
                   /\ probe.calls[c].offset = probe.calls[d].offset => probe.calls[c].size = 0

\* C12 witness: a call of non-zero size that had to pad, and two calls
\* that returned the same offset
C12_Witness ==
    /\ \E c \in AllocCalls :
          /\ probe.calls[c].offset > Len(probe.calls[c].before)
          /\ probe.calls[c].size > 0
    /\ \E c, d \in AllocCalls : c < d /\ probe.calls[c].offset = probe.calls[d].offset

(***************************************************************************)
(* Operand resolution.                                                     *)
(***************************************************************************)
\* the references generateBytecodeForInst hands to encodeOperand for one
\* instruction of a block, in the order of the encoding
ResolvedRefs(inst, self) ==
    CASE inst.op \in {"Param", "ReturnVoid"} -> <<>>
      [] inst.op \in {"IntLit", "FloatLit", "boolConst"} -> <<self>>
      [] inst.op = "Store" -> <<inst.operands[1], inst.operands[2]>>
      [] inst.op = "Load" -> <<inst.operands[1], self>>
      [] OTHER -> inst.operands \o (IF opHasResult(inst) THEN <<self>> ELSE <<>>)

RECURSIVE ConcatAll(_)
ConcatAll(ss) == IF ss = <<>> THEN <<>> ELSE Head(ss) \o ConcatAll(Tail(ss))

\* the references the code emission of a function resolves, in order
ResolutionsOf(blocks) ==
    ConcatAll([b \in 1..Len(blocks) |->
                  ConcatAll([i \in 1..Len(blocks[b]) |->
                                ResolvedRefs(blocks[b][i], InstRef(b, i))])])

\* the environment a BCFunc record was made in
EnvOf(rec) == Env(rec.m, rec.g, IRFuncOf(rec), translationUnits[rec.m].globalInsts)

\* a reference with no local id of its own in the function (a block or
\* register number), no entry in the value -> global map, and no IntLit
\* behind it
Unresolvable(rec, ref) ==
    /\ ref \in DOMAIN rec.mapInstToLocalID => rec.mapInstToLocalID[ref] < 0
    /\ <<rec.m, ref>> \notin DOMAIN shared.mapValueToGlobal
    /\ ValueOf(EnvOf(rec), ref).op # "IntLit"

\* the references of a function that cannot be resolved
UnresolvableRefs(rec) ==
    LET resolutions == ResolutionsOf(IRFuncOf(rec).blocks)
    IN  {ref \in {resolutions[k] : k \in 1..Len(resolutions)} : Unresolvable(rec, ref)}

\* the code emission of the function was entered: its registers are
\* populated and the assertion after the population did not fail
EmissionEntered(rec) == rec.populated /\ (rec.regCounter = rec.regCount \/ build.ndebug)

\* C13: a function whose code emission meets an operand that has no local
\* id, is not in the value -> global map and is not an IntLit ends in the
\* fatal 'no ID for inst' error: the generate call does not complete and
\* generatedBytecode stays unset; the error is raised for no other
\* function, and generatedBytecode is set only by a run without an error.
C13_MissingIdentifier ==
    /\ \A i \in FuncRecs :
          (EmissionEntered(bcFuncRecs[i]) /\ UnresolvableRefs(bcFuncRecs[i]) # {})
              => /\ shared.fail = "no ID for inst"
                 /\ pc = "failed"
                 /\ i = Len(bcFuncRecs)
                 /\ ~bcFuncRecs[i].emitted
                 /\ bcFuncRecs[i].bytes = NullPtr
                 /\ generatedBytecode = NullPtr
    /\ shared.fail = "no ID for inst" =>
          /\ bcFuncRecs # <<>>
          /\ bcFuncRecs[Len(bcFuncRecs)].kind = "func"
          /\ UnresolvableRefs(bcFuncRecs[Len(bcFuncRecs)]) # {}
    /\ shared.fail # "none" => pc = "failed" /\ generatedBytecode = NullPtr
    /\ generatedBytecode # NullPtr => pc = "done" /\ shared.fail = "none"

\* C13 witness: the run has ended in 'no ID for inst' for an operand that
\* is a floating-point literal kept outside the blocks
C13_Witness ==
    /\ pc = "failed"
    /\ shared.fail = "no ID for inst"
    /\ \E ref \in UnresolvableRefs(bcFuncRecs[Len(bcFuncRecs)]) : ref.k = "floatlit"

(***************************************************************************)
(* Null types.                                                             *)
(***************************************************************************)
\* the id identifies a BCType record of the void kind
IsVoidTypeID(id) ==
    /\ id + 1 \in DOMAIN shared.bcTypes
    /\ shared.bcTypes[id + 1].op = "VoidType"
    /\ shared.bcTypes[id + 1].id = id

\* C14: wherever a type id is produced for an instruction or a global
\* whose data type is null, the id identifies a BCType record of the void
\* kind, and no fatal error is raised for the null type.
C14_NullTypeIsVoid ==
    /\ shared.fail # "null dereference"
    /\ \A i \in 1..Len(bcFuncRecs) :
          (bcFuncRecs[i].kind \in {"func", "symbol"} /\ IRFuncOf(bcFuncRecs[i]).type = NullType)
              => IsVoidTypeID(bcFuncRecs[i].typeID)

(***************************************************************************)
(* End-to-end scenarios.                                                   *)
(***************************************************************************)
\* the BCModule record of translation unit m
ModuleRecOf(m) == bcModuleRecs[CHOOSE r \in 1..Len(bcModuleRecs) : bcModuleRecs[r].tu = m]

\* the id of int in the type table, NullPtr when int is not interned
IntTypeID == IF IntT \in DOMAIN shared.mapTypeToID THEN shared.mapTypeToID[IntT] ELSE NullPtr

\* the encoded functions whose body is the entry block IntLit 42 : int,
\* ReturnVoid, in a module of that one function where int has type id 0
Scenario1Recs ==
    {i \in FuncRecs :
        /\ bcFuncRecs[i].emitted
        /\ IRFuncOf(bcFuncRecs[i]).blocks = <<<<IntLit42, ReturnVoid>>>>
        /\ Len(translationUnits) = 1
        /\ Len(translationUnits[1].globalInsts) = 1
        /\ IntTypeID = 0}

\* C15 (as stated): the function's code bytes are exactly 07 00 2A 03, no
\* destination operand after the literal value, and the module's constant
\* pool has exactly one entry {op = IntLit, type = 0, value = 42}.
C15_Scenario1NoDestination ==
    \A i \in Scenario1Recs :
        /\ bcFuncRecs[i].currentBytecode = <<7, 0, 42, 3>>
        /\ pc = "done" =>
              /\ ModuleRecOf(1).constantCount = 1
              /\ Len(ModuleRecOf(1).constants) = 1
              /\ ModuleRecOf(1).constants[1].op = "IntLit"
              /\ ModuleRecOf(1).constants[1].typeID = 0
              /\ ModuleRecOf(1).constants[1].intVal = 42

\* C15: the literal of the entry block has a result, so it gets register
\* 0 and its encoding ends with the destination operand svar(0) = 00: the
\* code bytes are exactly 07 00 2A 00 03, the function has one register
\* (op IntLit, type 0) and no imported constant, and the module's constant
\* pool is empty.
C15_Scenario1 ==
    \A i \in Scenario1Recs :
        /\ bcFuncRecs[i].currentBytecode = <<7, 0, 42, 0, 3>>
        /\ bcFuncRecs[i].byteCount = 5
        /\ bcFuncRecs[i].regCount = 1
        /\ bcFuncRecs[i].regs[1].op = "IntLit"
        /\ bcFuncRecs[i].regs[1].typeID = 0
        /\ bcFuncRecs[i].mapInstToLocalID[InstRef(1, 1)] = 0
        /\ bcFuncRecs[i].constCount = 0
        /\ shared.constants = <<>>
        /\ pc = "done" =>
              /\ ModuleRecOf(1).constantCount = 0
              /\ ModuleRecOf(1).constants = <<>>

\* C15 witness: the scenario has been generated to its end
C15_Witness == pc = "done" /\ Scenario1Recs # {}

\* the id of pointer-to-int in the type table, NullPtr when it is not interned
PtrIntTypeID ==
    IF PtrType(IntT) \in DOMAIN shared.mapTypeToID
    THEN shared.mapTypeToID[PtrType(IntT)] ELSE NullPtr

\* the first symbol of the run, when it is an encoded function whose entry
\* block starts with var v : int and store v, 5, the 5 being an integer
\* literal kept outside the blocks
Scenario3Recs ==
    {i \in FuncRecs :
        /\ i = 1
        /\ bcFuncRecs[i].m = 1
        /\ bcFuncRecs[i].emitted
        /\ Len(IRFuncOf(bcFuncRecs[i]).blocks) >= 1
        /\ Len(IRFuncOf(bcFuncRecs[i]).blocks[1]) >= 2
        /\ IRFuncOf(bcFuncRecs[i]).blocks[1][1] = VarInt
        /\ IRFuncOf(bcFuncRecs[i]).blocks[1][2] = StoreLit
        /\ LitInst(1).intVal = 5}

\* the type id a register holds: the interned id, or the zero a store
\* through a released destination leaves
TypeIDLeft(id, grew) == IF grew /\ build.staleStore = "lost" THEN 0 ELSE id

\* what C16 says of registers and constants: registers 0 (pointer) and 1
\* (storage) for the var, constant id 0 for the literal, which is the
\* first imported constant of the function, under the local id ~0 = -1
Scenario3Tables(rec) ==
    /\ rec.mapInstToLocalID[InstRef(1, 1)] = 0
    /\ rec.regCount >= 2
    /\ rec.regs[1] = [op |-> "Var", previousVarIndexPlusOne |-> 0,
                      typeID |-> TypeIDLeft(PtrIntTypeID, rec.regs[1].grew),
                      grew |-> rec.regs[1].grew]
    /\ rec.regs[2] = [op |-> "Var", previousVarIndexPlusOne |-> 1,
                      typeID |-> TypeIDLeft(IntTypeID, rec.regs[2].grew),
                      grew |-> rec.regs[2].grew]
    /\ PtrIntTypeID # NullPtr /\ IntTypeID # NullPtr
    /\ shared.constants[1].value = <<rec.m, LitRef(1)>>
    /\ shared.mapValueToGlobal[<<rec.m, LitRef(1)>>] = BCConst("Constant", 0)
    /\ rec.remappedGlobalSymbols[1] = BCConst("Constant", 0)
    /\ rec.constCount >= 1
    /\ rec.consts[1] = BCConst("Constant", 0)
    /\ rec.mapInstToLocalID[LitRef(1)] = -1
    /\ SubSeq(rec.currentBytecode, 1, 4) = <<OpCode("Var"), PtrIntTypeID, 0, 0>>
    /\ SubSeq(rec.currentBytecode, 5, 7) = <<OpCode("Store"), IntTypeID, 0>>

\* C16 (as stated): the var gets registers 0 and 1, the literal becomes
\* constant id 0 and the first imported constant, and the Store's value
\* operand, local id ~0 = -1, is encoded as the single byte 03.
C16_Scenario3ByteThree ==
    \A i \in Scenario3Recs :
        /\ Scenario3Tables(bcFuncRecs[i])
        /\ bcFuncRecs[i].currentBytecode[8] = 3

\* C16: the var gets registers 0 and 1, the literal becomes constant id 0
\* and the first imported constant, and the Store's value operand, local
\* id ~0 = -1, is encoded as the single byte 01, the zig-zag value
\* (~(-1) << 1) | 1 = 1: the first eight bytes of the code are the var,
\* the head of the store and encodeSInt of that local id.
C16_Scenario3 ==
    \A i \in Scenario3Recs :
        /\ Scenario3Tables(bcFuncRecs[i])
        /\ bcFuncRecs[i].currentBytecode[8] = 1
        /\ SubSeq(bcFuncRecs[i].currentBytecode, 1, 8) =
               encodeSInt(SubSeq(bcFuncRecs[i].currentBytecode, 1, 7),
                          bcFuncRecs[i].mapInstToLocalID[LitRef(1)])

\* C16 witness: the scenario has been generated to its end
C16_Witness == pc = "done" /\ Scenario3Recs # {}

(***************************************************************************)
(* The constant pool and the imported constants.                           *)
(***************************************************************************)
\* the elements of s in the order of their first occurrence
RECURSIVE Dedupe(_, _)
Dedupe(s, acc) ==
    IF s = <<>> THEN acc
    ELSE IF \E k \in 1..Len(acc) : acc[k] = Head(s) THEN Dedupe(Tail(s), acc)
    ELSE Dedupe(Tail(s), Append(acc, Head(s)))

\* a reference the function has no block or register number for
IsImported(rec, ref) ==
    ref \in DOMAIN rec.mapInstToLocalID => rec.mapInstToLocalID[ref] < 0

\* a reference that goes through getGlobalValue to an IntLit
IsPooled(rec, ref) ==
    /\ IsImported(rec, ref)
    /\ ref.k # "global"
    /\ ValueOf(EnvOf(rec), ref).op = "IntLit"

\* the references of s that go through getGlobalValue to an IntLit
RECURSIVE PooledRefs(_, _)
PooledRefs(s, rec) ==
    IF s = <<>> THEN <<>>
    ELSE (IF IsPooled(rec, Head(s)) THEN <<Head(s)>> ELSE <<>>) \o PooledRefs(Tail(s), rec)

\* the IntLit values a function resolves through getGlobalValue, as keys
\* of the value -> global map, each at its first encounter
PooledBy(rec) ==
    LET refs == Dedupe(PooledRefs(ResolutionsOf(IRFuncOf(rec).blocks), rec), <<>>)
    IN  [k \in 1..Len(refs) |-> <<rec.m, refs[k]>>]

\* the IntLit values the functions encoded so far have resolved, in the
\* order of their first encounter
RECURSIVE PooledUpTo(_)
PooledUpTo(i) ==
    IF i = 0 THEN <<>>
    ELSE IF bcFuncRecs[i].kind = "func"
    THEN Dedupe(PooledBy(bcFuncRecs[i]), PooledUpTo(i - 1))
    ELSE PooledUpTo(i - 1)

\* the pending constants list, as keys of the value -> global map
PoolKeys == [a \in 1..Len(shared.constants) |-> shared.constants[a].value]

\* C17: each IntLit value resolved through getGlobalValue has exactly one
\* pool entry; constant ids are dense 0..C-1 in first-encounter order over
\* the functions encoded; every reference to the value from any function
\* is the same BCConst{Constant, id}; and a module's constants array holds
\* one record per value pooled by then, at index id.
C17_ConstantPool ==
    /\ \A a, b \in 1..Len(PoolKeys) : PoolKeys[a] = PoolKeys[b] => a = b
    /\ \A a \in 1..Len(PoolKeys) :
          /\ PoolKeys[a] \in DOMAIN shared.mapValueToGlobal
          /\ shared.mapValueToGlobal[PoolKeys[a]] = BCConst("Constant", a - 1)
    /\ \A key \in DOMAIN shared.mapValueToGlobal :
          shared.mapValueToGlobal[key].flavor = "Constant" =>
              /\ shared.mapValueToGlobal[key].id < Len(PoolKeys)
              /\ PoolKeys[shared.mapValueToGlobal[key].id + 1] = key
    /\ shared.fail = "none" => PoolKeys = PooledUpTo(Len(bcFuncRecs))
    /\ \A i \in FuncRecs :
          bcFuncRecs[i].emitted =>
              LET pooled == PooledBy(bcFuncRecs[i])
              IN  \A k \in 1..Len(pooled) :
                      /\ bcFuncRecs[i].mapInstToLocalID[pooled[k][2]] < 0
                      /\ bcFuncRecs[i].remappedGlobalSymbols[
                             -bcFuncRecs[i].mapInstToLocalID[pooled[k][2]]] =
                             shared.mapValueToGlobal[pooled[k]]
                      /\ shared.mapValueToGlobal[pooled[k]].flavor = "Constant"
    /\ \A r \in 1..Len(bcModuleRecs) :
          bcModuleRecs[r].returned =>
              /\ bcModuleRecs[r].constantCount = Len(bcModuleRecs[r].constants)
              /\ bcModuleRecs[r].constantCount =
                     Cardinality({a \in 1..Len(PoolKeys) : PoolKeys[a][1] <= bcModuleRecs[r].tu})
              /\ \A a \in 1..bcModuleRecs[r].constantCount :
                    /\ bcModuleRecs[r].constants[a].op = "IntLit"
                    /\ bcModuleRecs[r].constants[a].intVal = shared.constants[a].inst.intVal
                    /\ bcModuleRecs[r].constants[a].typeID =
                           TypeIDLeft(IntTypeID, bcModuleRecs[r].constants[a].typeIDGrew)
                    /\ bcModuleRecs[r].constants[a].ptr # NullPtr

\* C17 witness: the run is over, two functions of one module have resolved
\* the same literal, and the pool holds three values
C17_Witness ==
    /\ pc = "done"
    /\ Len(PoolKeys) >= 3
    /\ \E i, j \in FuncRecs :
          /\ i < j
          /\ bcFuncRecs[i].m = bcFuncRecs[j].m
          /\ \E k, l \in 1..2 : PooledBy(bcFuncRecs[i])[k] = PooledBy(bcFuncRecs[j])[l]

\* the references of s the function has no block or register number for
RECURSIVE ImportedRefs(_, _)
ImportedRefs(s, rec) ==
    IF s = <<>> THEN <<>>
    ELSE (IF IsImported(rec, Head(s)) THEN <<Head(s)>> ELSE <<>>) \o ImportedRefs(Tail(s), rec)

\* the operand resolutions of a function that went to a global symbol or
\* a pooled constant, one entry per resolution, in the order of the code
ImportResolutions(rec) == ImportedRefs(ResolutionsOf(IRFuncOf(rec).blocks), rec)

\* the operands behind them, each at its first resolution
ImportedOperands(rec) == Dedupe(ImportResolutions(rec), <<>>)

\* the bytes of one operand and of one type operand, from the function's
\* local ids and the type table
OperandBytes(rec, ref) == encodeSInt(<<>>, rec.mapInstToLocalID[ref])

TypeBytes(type) == encodeUInt(<<>>, shared.mapTypeToID[canonicalOf(type)])

RECURSIVE OperandsBytes(_, _)
OperandsBytes(rec, refs) ==
    IF refs = <<>> THEN <<>> ELSE OperandBytes(rec, Head(refs)) \o OperandsBytes(rec, Tail(refs))

\* the bytes of one instruction of the inputs (Param, ReturnVoid, Store,
\* IntLit, and the default form), by the encoding table
InstBytes(rec, inst, self) ==
    CASE inst.op = "Param" -> <<>>
      [] inst.op = "ReturnVoid" -> <<OpCode(inst.op)>>
      [] inst.op = "Store" ->
            <<OpCode(inst.op)>> \o TypeBytes(ValueOf(EnvOf(rec), inst.operands[2]).type)
                \o OperandsBytes(rec, ResolvedRefs(inst, self))
      [] inst.op = "IntLit" ->
            <<OpCode(inst.op)>> \o TypeBytes(inst.type) \o encodeUInt(<<>>, inst.intVal)
                \o OperandsBytes(rec, ResolvedRefs(inst, self))
      [] OTHER ->
            <<OpCode(inst.op)>> \o TypeBytes(inst.type) \o encodeUInt(<<>>, Len(inst.operands))
                \o OperandsBytes(rec, ResolvedRefs(inst, self))

\* the code of a function by the encoding table
FuncBytes(rec) ==
    ConcatAll([b \in 1..Len(IRFuncOf(rec).blocks) |->
                  ConcatAll([i \in 1..Len(IRFuncOf(rec).blocks[b]) |->
                                InstBytes(rec, IRFuncOf(rec).blocks[b][i], InstRef(b, i))])])

\* C18 (as stated): every operand resolution that goes to a global symbol
\* or a pooled constant appends one entry to the remapped-globals list, so
\* constCount is the number of such resolutions.
C18_EntryPerResolution ==
    \A i \in FuncRecs :
        bcFuncRecs[i].emitted =>
            /\ bcFuncRecs[i].constCount = Len(ImportResolutions(bcFuncRecs[i]))
            /\ bcFuncRecs[i].consts = bcFuncRecs[i].remappedGlobalSymbols

\* C18: the first resolution of an operand that goes to a global symbol or
\* a pooled constant appends one entry to the remapped-globals list and
\* binds the operand to ~k, k the position of the new entry; every
\* resolution of that operand in the function is encoded with ~k;
\* constCount is the number of distinct such operands and consts[k] is
\* the BCConst of the operand first resolved at position k.
C18_ImportedConstants ==
    \A i \in FuncRecs :
        bcFuncRecs[i].emitted =>
            LET rec == bcFuncRecs[i]
                imported == ImportedOperands(rec)
            IN  /\ rec.constCount = Len(imported)
                /\ rec.consts = rec.remappedGlobalSymbols
                /\ Len(rec.consts) = rec.constCount
                /\ \A k \in 1..rec.constCount :
                      /\ rec.mapInstToLocalID[imported[k]] = -k
                      /\ rec.consts[k] = shared.mapValueToGlobal[<<rec.m, imported[k]>>]
                      /\ rec.consts[k].flavor \in {"GlobalSymbol", "Constant"}
                /\ \A ref \in DOMAIN rec.mapInstToLocalID :
                      rec.mapInstToLocalID[ref] < 0 =>
                          \E k \in 1..rec.constCount : imported[k] = ref
                /\ rec.currentBytecode = FuncBytes(rec)

\* C18 witness: the run is over and a function has resolved one imported
\* operand twice and a global symbol
C18_Witness ==
    /\ pc = "done"
    /\ \E i \in FuncRecs :
          /\ bcFuncRecs[i].emitted
          /\ Len(ImportResolutions(bcFuncRecs[i])) > bcFuncRecs[i].constCount
    /\ \E i \in FuncRecs :
          /\ bcFuncRecs[i].emitted
          /\ \E k \in 1..bcFuncRecs[i].constCount :
                bcFuncRecs[i].consts[k].flavor = "GlobalSymbol"

(***************************************************************************)
(* C19: relocation safety of the typeID stores.                            *)
(***************************************************************************)
\* the typeID stores of the run so far whose value came from an interning
\* call that grew the arena: of a function or symbol record, of a
\* register, of a module constant
GrowingTypeIDStores ==
    {<<"symbol", i, 0>> : i \in {j \in DOMAIN bcFuncRecs : bcFuncRecs[j].typeIDGrew}}
    \cup UNION {{<<"reg", i, r>> : r \in {q \in DOMAIN bcFuncRecs[i].regs :
                                              bcFuncRecs[i].regs[q].grew}} : i \in FuncRecs}
    \cup UNION {{<<"constant", m, c>> : c \in {d \in DOMAIN bcModuleRecs[m].constants :
                                                   bcModuleRecs[m].constants[d].typeIDGrew}} :
                m \in DOMAIN bcModuleRecs}

\* the orders in which the two sides of `x->typeID = f(...)` may be evaluated
EvaluationOrders == {"value first", "destination first"}

\* the destination of a store was taken from the arena base as it was
\* before the call that produced the value grew the arena
DestinationBeforeGrowth(order, store) ==
    order = "destination first" /\ store \in GrowingTypeIDStores

\* C19: relocation safety: no typeID store (bcFunc->typeID, bcVar->typeID,
\* bcRegs[i].typeID, bcConstants[i].typeID) uses a destination address
\* computed from the arena base before the interning call on its right-hand
\* side grew the arena, under every order in which the two sides of the
\* assignment may be evaluated.
C19_RelocationSafety ==
    \A order \in EvaluationOrders :
        /\ \A i \in DOMAIN bcFuncRecs :
              /\ ~DestinationBeforeGrowth(order, <<"symbol", i, 0>>)
              /\ bcFuncRecs[i].kind = "func" =>
                    \A r \in DOMAIN bcFuncRecs[i].regs :
                        ~DestinationBeforeGrowth(order, <<"reg", i, r>>)
        /\ \A m \in DOMAIN bcModuleRecs :
              \A c \in DOMAIN bcModuleRecs[m].constants :
                  ~DestinationBeforeGrowth(order, <<"constant", m, c>>)
====
